---- MODULE Spec2Model ----
(***************************************************************************)
(* Parameter and body decoding core of openapi3filter                      *)
(* (src/openapi3filter/req_resp_decoder.go).                               *)
(*                                                                         *)
(* A Go string is a sequence of one-character strings.  A decoded value is *)
(* a record tagged by k; an error is a record tagged by kind.              *)
(***************************************************************************)
EXTENDS Integers, Sequences, FiniteSets, TLC

VARIABLES bodyDecoders, lastReg, call, ret

vars == <<bodyDecoders, lastReg, call, ret>>

\* Then(v): v is computed once and named, as a local variable of the code
With(v, Then(_)) == Then(v)

(***************************************************************************)
(* strings                                                                 *)
(***************************************************************************)

\* s[a..] of Go, 0-based a
Drop(s, a) == SubSeq(s, a + 1, Len(s))

\* s[:a] of Go
Take(s, a) == SubSeq(s, 1, a)

HasPrefix(s, p) == Len(s) >= Len(p) /\ Take(s, Len(p)) = p

\* 0-based index of the first occurrence of sep in s, -1 when there is none
Index(s, sep) ==
  LET hits == {i \in 0..(Len(s) - Len(sep)) : SubSeq(s, i + 1, i + Len(sep)) = sep}
  IN  IF hits = {} THEN -1 ELSE CHOOSE i \in hits : \A j \in hits : i <= j

RECURSIVE Split(_, _)
Split(s, sep) ==
  IF sep = <<>>
  THEN [i \in 1..Len(s) |-> <<s[i]>>]
  ELSE With(Index(s, sep), LAMBDA i :
         IF i < 0 THEN <<s>>
         ELSE <<Take(s, i)>> \o Split(Drop(s, i + Len(sep)), sep))

RECURSIVE Join(_, _)
Join(ss, sep) ==
  IF Len(ss) = 0 THEN <<>>
  ELSE IF Len(ss) = 1 THEN ss[1]
  ELSE ss[1] \o sep \o Join(Tail(ss), sep)

(***************************************************************************)
(* errors                                                                  *)
(***************************************************************************)

NoErr == [kind |-> "nil"]

IsErr(e) == e.kind # "nil"

\* &ParseError{Kind, Value, Reason, Cause, path}
ParseError(kind, value, reason, cause, path) ==
  [kind |-> kind, isParseError |-> TRUE, value |-> value, reason |-> reason,
   cause |-> cause, path |-> path]

\* errors.New / fmt.Errorf: an error that is not a *ParseError
PlainError(reason, arg) ==
  [kind |-> "plain", isParseError |-> FALSE, reason |-> reason, arg |-> arg]

(***************************************************************************)
(* decoded values                                                          *)
(***************************************************************************)

\* the nil interface value
Null == [k |-> "null"]

\* a nil []interface{} (a null array) and a nil map[string]interface{}
NilSlice == [k |-> "nilslice"]

NilMap == [k |-> "nilmap"]

Str(s) == [k |-> "string", s |-> s]

Int64(n) == [k |-> "int64", n |-> n]

Int32(n) == [k |-> "int32", n |-> n]

\* a Go int
GoInt(n) == [k |-> "int", n |-> n]

\* a float64 with the decimal value m / 10^e
Float64(m, e) == [k |-> "float64", m |-> m, e |-> e]

Bool(b) == [k |-> "bool", b |-> b]

\* a non-nil []interface{}
Arr(a) == [k |-> "array", a |-> a]

\* a non-nil map[string]interface{}
Obj(o) == [k |-> "object", o |-> o]

\* a (value, error) pair of results
R(v, err) == [v |-> v, err |-> err]

(***************************************************************************)
(* schemas                                                                 *)
(***************************************************************************)

\* a nil *SchemaRef
NilSchema == [nil |-> TRUE]

\* additionalProperties: Has is a *bool ("nil", "true" or "false")
NoAdditionalProperties == [has |-> "nil", schema |-> NilSchema]

\* a schema of the given type list with nothing else set
Typed(type) ==
  [nil |-> FALSE, type |-> type, format |-> "", items |-> NilSchema,
   properties |-> <<>>, additionalProperties |-> NoAdditionalProperties,
   allOf |-> <<>>, anyOf |-> <<>>, oneOf |-> <<>>, not |-> NilSchema,
   pattern |-> ""]

Untyped == Typed(<<>>)

StringSchema == Typed(<<"string">>)

IntegerSchema == Typed(<<"integer">>)

Int32Schema == [Typed(<<"integer">>) EXCEPT !.format = "int32"]

NumberSchema == Typed(<<"number">>)

BooleanSchema == Typed(<<"boolean">>)

ArrayOf(items) == [Typed(<<"array">>) EXCEPT !.items = items]

ObjectOf(properties) == [Typed(<<"object">>) EXCEPT !.properties = properties]

AllOf(members) == [Untyped EXCEPT !.allOf = members]

AnyOf(members) == [Untyped EXCEPT !.anyOf = members]

OneOf(members) == [Untyped EXCEPT !.oneOf = members]

Not(member) == [Untyped EXCEPT !.not = member]

\* Types.Is: the type list is exactly this one type
Is(schema, t) == schema.type = <<t>>

\* Types.Permits: the type list contains the type
Permits(schema, t) == \E i \in 1..Len(schema.type) : schema.type[i] = t

(***************************************************************************)
(* strconv, for strings over Chars                                         *)
(***************************************************************************)

\* the characters of the strings of the model; US is urlDecoderDelimiter.
\* There is no "0", sign, "_", "e" or "x": a number is a run of Digits with,
\* for a float, at most one ".".
Digits == {"1", "2"}

US == "\\x1F"

Chars ==
  Digits \cup {"t", "k", "j", "K", "J", ",", ".", ";", "=", "|", " ", "[", "]", "&", US}

DigitValue(c) == IF c = "1" THEN 1 ELSE 2

RECURSIVE DecimalValue(_)
DecimalValue(s) ==
  IF Len(s) = 0 THEN 0
  ELSE DecimalValue(Take(s, Len(s) - 1)) * 10 + DigitValue(s[Len(s)])

IsDigits(s) == Len(s) > 0 /\ \A i \in 1..Len(s) : s[i] \in Digits

ErrSyntax == PlainError("strconv", "invalid syntax")

\* strconv.ParseInt(raw, 0, bits): (n, NumError.Err).  A run of Digits has no
\* base prefix and is read in base 10; the strings of the model have fewer
\* than ten digits, so the value is below 2^31 and ErrRange is returned for
\* none of them, whatever bits is.
ParseInt(raw, bits) ==
  IF ~IsDigits(raw) THEN [n |-> 0, err |-> ErrSyntax]
  ELSE [n |-> DecimalValue(raw), err |-> NoErr]

\* strconv.Atoi
Atoi(raw) == ParseInt(raw, 64)

\* strconv.ParseFloat(raw, 64)
ParseFloat(raw) ==
  LET dots == {i \in 1..Len(raw) : raw[i] = "."}
      digits == SelectSeq(raw, LAMBDA c : c \in Digits)
  IN  IF /\ \A i \in 1..Len(raw) : raw[i] \in Digits \cup {"."}
         /\ Cardinality(dots) <= 1
         /\ Len(digits) > 0
      THEN [v |-> Float64(DecimalValue(digits),
                          IF dots = {} THEN 0 ELSE Len(raw) - (CHOOSE i \in dots : TRUE)),
            err |-> NoErr]
      ELSE [v |-> Float64(0, 0), err |-> ErrSyntax]

TrueStrings ==
  { <<"1">>, <<"t">>, <<"T">>, <<"T", "R", "U", "E">>, <<"t", "r", "u", "e">>,
    <<"T", "r", "u", "e">> }

FalseStrings ==
  { <<"0">>, <<"f">>, <<"F">>, <<"F", "A", "L", "S", "E">>, <<"f", "a", "l", "s", "e">>,
    <<"F", "a", "l", "s", "e">> }

\* strconv.ParseBool
ParseBool(raw) ==
  IF raw \in TrueStrings THEN [b |-> TRUE, err |-> NoErr]
  ELSE IF raw \in FalseStrings THEN [b |-> FALSE, err |-> NoErr]
  ELSE [b |-> FALSE, err |-> ErrSyntax]

(***************************************************************************)
(* primitive parser                                                        *)
(***************************************************************************)

InvalidPrimitive(raw, typ, cause) ==
  ParseError("InvalidFormat", Str(raw), <<"an invalid", typ>>, cause, <<>>)

parsePrimitiveCase(raw, schema, typ) ==
  CASE typ = "integer" ->
         IF schema.format = "int32"
         THEN With(ParseInt(raw, 32), LAMBDA p :
                IF IsErr(p.err) THEN R(Null, InvalidPrimitive(raw, typ, p.err))
                ELSE R(Int32(p.n), NoErr))
         ELSE With(ParseInt(raw, 64), LAMBDA p :
                IF IsErr(p.err) THEN R(Null, InvalidPrimitive(raw, typ, p.err))
                ELSE R(Int64(p.n), NoErr))
    [] typ = "number" ->
         With(ParseFloat(raw), LAMBDA p :
           IF IsErr(p.err) THEN R(Null, InvalidPrimitive(raw, typ, p.err))
           ELSE R(p.v, NoErr))
    [] typ = "boolean" ->
         With(ParseBool(raw), LAMBDA p :
           IF IsErr(p.err) THEN R(Null, InvalidPrimitive(raw, typ, p.err))
           ELSE R(Bool(p.b), NoErr))
    [] typ = "string" -> R(Str(raw), NoErr)
    [] OTHER ->
         R(Null, ParseError("Other", Str(raw), <<"schema has non primitive type", typ>>, NoErr, <<>>))

\* the mutant of parsePrimitiveLoop: the loop does not stop at the first type
\* that parses, the last one that parses wins
RECURSIVE parsePrimitiveLoop_NoReturn(_, _, _, _)
parsePrimitiveLoop_NoReturn(raw, schema, i, last) ==
  IF i > Len(schema.type) THEN last
  ELSE With(parsePrimitiveCase(raw, schema, schema.type[i]), LAMBDA r :
         IF ~IsErr(r.err) \/ IsErr(last.err) \/ i = 1
         THEN parsePrimitiveLoop_NoReturn(raw, schema, i + 1, r)
         ELSE parsePrimitiveLoop_NoReturn(raw, schema, i + 1, last))

\* the loop of parsePrimitive from the i-th type on; last is (v, err) so far
RECURSIVE parsePrimitiveLoop(_, _, _, _)
parsePrimitiveLoop(raw, schema, i, last) ==
  IF i > Len(schema.type) THEN last
  ELSE With(parsePrimitiveCase(raw, schema, schema.type[i]), LAMBDA r :
         IF ~IsErr(r.err) THEN r
         ELSE parsePrimitiveLoop(raw, schema, i + 1, r))

parsePrimitive(raw, schema) ==
  IF raw = <<>> THEN R(Null, NoErr)
  ELSE parsePrimitiveLoop(raw, schema, 1, R(Null, NoErr))

\* the error of a failed item i (0-based) of parseArray
ItemError(i, err) ==
  IF err.isParseError THEN ParseError("Other", Null, <<>>, err, <<GoInt(i)>>)
  ELSE PlainError("item %d: %w", <<i, err>>)

\* the mutant of parseArrayLoop: a null item is left out of the array
RECURSIVE parseArrayLoop_Sparse(_, _, _, _)
parseArrayLoop_Sparse(raw, schemaRef, i, value) ==
  IF i > Len(raw) THEN R(IF Len(value) = 0 THEN NilSlice ELSE Arr(value), NoErr)
  ELSE With(parsePrimitive(raw[i], schemaRef.items), LAMBDA item :
         IF IsErr(item.err) THEN R(NilSlice, ItemError(i - 1, item.err))
         ELSE IF item.v = Null THEN parseArrayLoop_Sparse(raw, schemaRef, i + 1, value)
         ELSE parseArrayLoop_Sparse(raw, schemaRef, i + 1, Append(value, item.v)))

\* the loop of parseArray from item i (1-based) on; value is the array so far
RECURSIVE parseArrayLoop(_, _, _, _)
parseArrayLoop(raw, schemaRef, i, value) ==
  IF i > Len(raw) THEN R(IF Len(value) = 0 THEN NilSlice ELSE Arr(value), NoErr)
  ELSE With(parsePrimitive(raw[i], schemaRef.items), LAMBDA item :
         IF IsErr(item.err) THEN R(NilSlice, ItemError(i - 1, item.err))
         ELSE IF item.v = Null THEN R(NilSlice, NoErr)
         ELSE parseArrayLoop(raw, schemaRef, i + 1, Append(value, item.v)))

parseArray(raw, schemaRef) == parseArrayLoop(raw, schemaRef, 1, <<>>)

(***************************************************************************)
(* query decoder: parseValue and parseArray                                *)
(***************************************************************************)

RECURSIVE parseValue(_, _)
RECURSIVE parseValueAllOf(_, _, _)
RECURSIVE parseValueAnyOf(_, _, _)
RECURSIVE parseValueOneOf(_, _, _, _, _)

\* the allOf loop of parseValue from member i on
parseValueAllOf(v, members, i) ==
  With(parseValue(v, members[i]), LAMBDA r :
    IF r.v = Null \/ IsErr(r.err) \/ i = Len(members) THEN r
    ELSE parseValueAllOf(v, members, i + 1))

\* the anyOf loop of parseValue from member i on
parseValueAnyOf(v, members, i) ==
  With(parseValue(v, members[i]), LAMBDA r :
    IF ~IsErr(r.err) THEN R(r.v, NoErr)
    ELSE IF i = Len(members) THEN R(Null, r.err)
    ELSE parseValueAnyOf(v, members, i + 1))

\* the oneOf loop of parseValue from member i on
parseValueOneOf(v, members, i, value, isMatched) ==
  IF i > Len(members)
  THEN (IF isMatched = 1 THEN R(value, NoErr)
        ELSE R(Null, PlainError("decoding oneOf failed: %d schemas matched", isMatched)))
  ELSE With(parseValue(v, members[i]), LAMBDA r :
         IF ~IsErr(r.err)
         THEN parseValueOneOf(v, members, i + 1, r.v, isMatched + 1)
         ELSE parseValueOneOf(v, members, i + 1, value, isMatched))

parseValue(v, schema) ==
  IF Len(schema.allOf) > 0 THEN parseValueAllOf(v, schema.allOf, 1)
  ELSE IF Len(schema.anyOf) > 0 THEN parseValueAnyOf(v, schema.anyOf, 1)
  ELSE IF Len(schema.oneOf) > 0 THEN parseValueOneOf(v, schema.oneOf, 1, Null, 0)
  ELSE IF schema.not # NilSchema
       THEN R(Null, PlainError("not implemented: decoding 'not'", <<>>))
  ELSE parsePrimitive(v, schema)

\* the loop of urlValuesDecoder.parseArray from item i (1-based) on
RECURSIVE urlParseArrayLoop(_, _, _, _)
urlParseArrayLoop(raw, schemaRef, i, value) ==
  IF i > Len(raw) THEN R(IF Len(value) = 0 THEN NilSlice ELSE Arr(value), NoErr)
  ELSE With(parseValue(raw[i], schemaRef.items), LAMBDA item :
         IF IsErr(item.err) THEN R(NilSlice, ItemError(i - 1, item.err))
         ELSE IF item.v = Null THEN R(NilSlice, NoErr)
         ELSE urlParseArrayLoop(raw, schemaRef, i + 1, Append(value, item.v)))

\* urlValuesDecoder.parseArray (sm is not used by it)
urlParseArray(raw, schemaRef) == urlParseArrayLoop(raw, schemaRef, 1, <<>>)

(***************************************************************************)
(* property splitter                                                       *)
(***************************************************************************)

\* a non-nil map[string]string
Props(m) == [k |-> "props", m |-> m]

\* m[key] = value
MapSet(m, key, value) == [k \in (DOMAIN m) \cup {key} |-> IF k = key THEN value ELSE m[k]]

PropsFormatError(src, propDelim, valueDelim) ==
  ParseError("InvalidFormat", Str(src),
             <<"a value must be a list of object's properties in format name", valueDelim,
               "value separated by", propDelim>>,
             NoErr, <<>>)

\* the loop of propsFromString for propDelim = valueDelim, from i (0-based) on
RECURSIVE propsFromPairs(_, _, _)
propsFromPairs(pairs, i, props) ==
  IF i >= Len(pairs) \div 2 THEN props
  ELSE propsFromPairs(pairs, i + 1, MapSet(props, pairs[i * 2 + 1], pairs[i * 2 + 2]))

\* the mutant of validPair: a pair with more than one value delimiter passes
validPair_AtLeastTwo(prop) == Len(prop) >= 2

\* len(prop) == 2
validPair(prop) == Len(prop) = 2

\* the loop of propsFromString for propDelim # valueDelim, from pair i (1-based) on
RECURSIVE propsFromSplitPairs(_, _, _, _, _, _)
propsFromSplitPairs(src, pairs, propDelim, valueDelim, i, props) ==
  IF i > Len(pairs) THEN R(Props(props), NoErr)
  ELSE With(Split(pairs[i], valueDelim), LAMBDA prop :
         IF ~validPair(prop)
         THEN R(NilMap, PropsFormatError(src, propDelim, valueDelim))
         ELSE propsFromSplitPairs(src, pairs, propDelim, valueDelim, i + 1,
                                  MapSet(props, prop[1], prop[2])))

propsFromString(src, propDelim, valueDelim) ==
  With(Split(src, propDelim), LAMBDA pairs :
    IF propDelim = valueDelim
    THEN (IF Len(pairs) % 2 # 0
          THEN R(NilMap, PropsFormatError(src, propDelim, valueDelim))
          ELSE R(Props(propsFromPairs(pairs, 0, <<>>)), NoErr))
    ELSE propsFromSplitPairs(src, pairs, propDelim, valueDelim, 1, <<>>))

(***************************************************************************)
(* object assembler                                                        *)
(***************************************************************************)

\* a []string
StrSlice(a) == [k |-> "[]string", a |-> a]

\* the *strconv.NumError of a failed conversion
NumError(func, str) == PlainError("strconv.NumError", <<func, str, ErrSyntax>>)

\* one element of convertArrayParameterToType, for the branch taken
convertElement(branch, str) ==
  CASE branch = "boolean" ->
         With(ParseBool(str), LAMBDA p :
           IF IsErr(p.err) THEN R(Null, NumError("ParseBool", str))
           ELSE R(Bool(p.b), NoErr))
    [] branch = "integer" ->
         With(Atoi(str), LAMBDA p :
           IF IsErr(p.err) THEN R(Null, NumError("Atoi", str))
           ELSE R(GoInt(p.n), NoErr))
    [] branch = "number" ->
         With(ParseFloat(str), LAMBDA p :
           IF IsErr(p.err) THEN R(Null, NumError("ParseFloat", str))
           ELSE R(p.v, NoErr))

\* a loop of convertArrayParameterToType from element i (1-based) on
RECURSIVE convertLoop(_, _, _, _)
convertLoop(strArray, branch, i, iarr) ==
  IF i > Len(strArray) THEN R(IF Len(iarr) = 0 THEN NilSlice ELSE Arr(iarr), NoErr)
  ELSE IF strArray[i] = <<>> THEN convertLoop(strArray, branch, i + 1, iarr)
  ELSE With(convertElement(branch, strArray[i]), LAMBDA e :
         IF IsErr(e.err) THEN R(Null, e.err)
         ELSE convertLoop(strArray, branch, i + 1, Append(iarr, e.v)))

\* convertArrayParameterToType(strArray, typ), typ the type list of items
convertArrayParameterToType(strArray, items) ==
  IF Permits(items, "boolean") THEN convertLoop(strArray, "boolean", 1, <<>>)
  ELSE IF Permits(items, "integer") THEN convertLoop(strArray, "integer", 1, <<>>)
  ELSE IF Permits(items, "number") THEN convertLoop(strArray, "number", 1, <<>>)
  ELSE IF Permits(items, "string") THEN R(StrSlice(strArray), NoErr)
  ELSE R(Null, PlainError("unsupported parameter array type: %s", items.type))

\* pathFromKeys: the keys as []interface{}
pathFromKeys(kk) == [i \in DOMAIN kk |-> Str(kk[i])]

handlePropParseError(path, err) ==
  IF err.isParseError THEN ParseError("Other", Null, <<>>, err, pathFromKeys(path))
  ELSE PlainError("property %q: %w", <<Join(path, <<".">>), err>>)

\* the loop of findNestedSchema from key i (1-based) on
RECURSIVE findNestedSchemaLoop(_, _, _)
findNestedSchemaLoop(currentSchema, keys, i) ==
  IF i > Len(keys) THEN [schema |-> currentSchema, err |-> NoErr]
  ELSE IF keys[i] \in DOMAIN currentSchema.properties
  THEN findNestedSchemaLoop(currentSchema.properties[keys[i]], keys, i + 1)
  ELSE IF currentSchema.additionalProperties.schema = NilSchema
  THEN [schema |-> NilSchema,
        err |-> PlainError("nested schema for key %q not found", keys[i])]
  ELSE findNestedSchemaLoop(currentSchema.additionalProperties.schema, keys, i + 1)

findNestedSchema(parentSchema, keys) == findNestedSchemaLoop(parentSchema, keys, 1)

\* deepSet on the map m: the map after the call, or the panic of the type
\* assertion m[key].(map[string]interface{}) on a value that is no map
RECURSIVE deepSet(_, _, _)
deepSet(m, keys, value) ==
  IF Len(keys) = 1 THEN [panic |-> FALSE, m |-> MapSet(m, keys[1], value)]
  ELSE With(IF keys[1] \in DOMAIN m THEN m[keys[1]] ELSE Obj(<<>>), LAMBDA child :
         IF child.k # "object" THEN [panic |-> TRUE, m |-> m]
         ELSE With(deepSet(child.o, Tail(keys), value), LAMBDA d :
                [panic |-> d.panic, m |-> MapSet(m, keys[1], Obj(d.m))]))

\* the first error of parsePrimitive over the elements of vals, NoErr if none
RECURSIVE firstParseError(_, _, _)
firstParseError(vals, items, i) ==
  IF i > Len(vals) THEN NoErr
  ELSE With(parsePrimitive(vals[i], items), LAMBDA item :
         IF IsErr(item.err) THEN item.err
         ELSE firstParseError(vals, items, i + 1))

\* the array rule of makeObject for the raw value of the property at path
arrayProperty(raw, arraySchema, path) ==
  With(Split(raw, <<US>>), LAMBDA vals :
    With(firstParseError(vals, arraySchema.items, 1), LAMBDA perr :
      IF IsErr(perr) THEN R(Null, handlePropParseError(path, perr))
      ELSE With(convertArrayParameterToType(vals, arraySchema.items), LAMBDA ivals :
             IF IsErr(ivals.err) THEN R(Null, handlePropParseError(path, ivals.err))
             ELSE ivals)))

\* props[key] of a map[string]string: "" when the key is missing
PropsGet(props, key) == IF key \in DOMAIN props THEN props[key] ELSE <<>>

\* a result of makeObject: it returned (v, err), or it panicked
MakeObjectReturn(v, err) == [panic |-> FALSE, v |-> v, err |-> err]

MakeObjectPanic == [panic |-> TRUE, v |-> NilMap, err |-> NoErr]

\* the loop over props of an object-typed property, from the j-th key of
\* keyOrder on; it gives the map so far, or the error or panic that ends it
RECURSIVE objectPropertyLoop(_, _, _, _, _, _)
objectPropertyLoop(props, schema, propName, keyOrder, j, obj) ==
  IF j > Len(keyOrder) THEN MakeObjectReturn(Obj(obj), NoErr)
  ELSE IF ~HasPrefix(keyOrder[j], propName \o <<US>>)
  THEN objectPropertyLoop(props, schema, propName, keyOrder, j + 1, obj)
  ELSE
    With(Split(keyOrder[j], <<US>>), LAMBDA mapKeys :
      With(findNestedSchema(schema, mapKeys), LAMBDA nested :
        IF IsErr(nested.err)
        THEN MakeObjectReturn(NilMap,
               ParseError("Other", Null, <<nested.err.reason, nested.err.arg>>, NoErr,
                          pathFromKeys(mapKeys)))
        ELSE
          With(IF Permits(nested.schema, "array")
               THEN arrayProperty(props[keyOrder[j]], nested.schema, mapKeys)
               ELSE With(parsePrimitive(props[keyOrder[j]], nested.schema), LAMBDA pv :
                      IF IsErr(pv.err) THEN R(Null, handlePropParseError(mapKeys, pv.err))
                      ELSE pv),
               LAMBDA value :
            IF IsErr(value.err) THEN MakeObjectReturn(NilMap, value.err)
            ELSE With(deepSet(obj, mapKeys, value.v), LAMBDA d :
                   IF d.panic THEN MakeObjectPanic
                   ELSE objectPropertyLoop(props, schema, propName, keyOrder, j + 1, d.m)))))

\* the loop of makeObject over schema.Value.Properties, visited in propOrder,
\* from its i-th name on; the loops over props visit the keys in keyOrder
RECURSIVE makeObjectLoop(_, _, _, _, _, _)
makeObjectLoop(props, schema, propOrder, keyOrder, i, obj) ==
  IF i > Len(propOrder) THEN MakeObjectReturn(Obj(obj), NoErr)
  ELSE
    With(propOrder[i], LAMBDA propName :
      With(schema.properties[propName], LAMBDA propSchema :
        CASE Is(propSchema, "array") ->
               With(arrayProperty(PropsGet(props, propName), propSchema, <<propName>>),
                    LAMBDA a :
                 IF IsErr(a.err) THEN MakeObjectReturn(NilMap, a.err)
                 ELSE makeObjectLoop(props, schema, propOrder, keyOrder, i + 1,
                                     MapSet(obj, propName, a.v)))
          [] Is(propSchema, "object") ->
               With(objectPropertyLoop(props, schema, propName, keyOrder, 1, obj),
                    LAMBDA o :
                 IF o.panic \/ IsErr(o.err) THEN o
                 ELSE makeObjectLoop(props, schema, propOrder, keyOrder, i + 1, o.v.o))
          [] OTHER ->
               With(parsePrimitive(PropsGet(props, propName), propSchema), LAMBDA pv :
                 IF IsErr(pv.err)
                 THEN MakeObjectReturn(NilMap, handlePropParseError(<<propName>>, pv.err))
                 ELSE makeObjectLoop(props, schema, propOrder, keyOrder, i + 1,
                                     MapSet(obj, propName, pv.v)))))

\* the mutant of makeObject: the input keys that are no declared property
\* are carried into the object as strings
makeObject_CarryUndeclared(props, schema, propOrder, keyOrder) ==
  With(makeObjectLoop(props, schema, propOrder, keyOrder, 1, <<>>), LAMBDA r :
    IF r.panic \/ IsErr(r.err) THEN r
    ELSE MakeObjectReturn(
           Obj([key \in DOMAIN r.v.o \cup
                          {x \in DOMAIN props :
                             Split(x, <<US>>)[1] \notin DOMAIN schema.properties} |->
                  IF key \in DOMAIN r.v.o THEN r.v.o[key] ELSE Str(props[key])]),
           NoErr))

\* makeObject(props, schema).  Go visits a map in an unspecified order:
\* propOrder is the order of schema.Value.Properties of this call and
\* keyOrder the order of props.
makeObject(props, schema, propOrder, keyOrder) ==
  makeObjectLoop(props, schema, propOrder, keyOrder, 1, <<>>)

\* the orders a range over a map with these keys may take
Orders(keys) ==
  {order \in [1..Cardinality(keys) -> keys] :
     \A a, b \in 1..Cardinality(keys) : order[a] = order[b] => a = b}

(***************************************************************************)
(* value decoders                                                          *)
(***************************************************************************)

\* a serialization method
SerializationMethod(style, explode) == [style |-> style, explode |-> explode]

invalidSerializationMethodErr(sm) ==
  PlainError("invalid serialization method: style=%q, explode=%v", <<sm.style, sm.explode>>)

\* the results (value, found, err) of a Decode method, or its panic
Decoded(v, found, err) == [panic |-> FALSE, v |-> v, found |-> found, err |-> err]

DecodePanic == [panic |-> TRUE, v |-> Null, found |-> FALSE, err |-> NoErr]

\* "val, err := makeObject(props, schema); return val, found, err"
ObjectDecoded(made, found) ==
  IF made.panic THEN DecodePanic ELSE Decoded(made.v, found, made.err)

\* what makeObject(props, schema) may return, over the iteration orders
makeObjectOutcomes(props, schema) ==
  {makeObject(props, schema, propOrder, keyOrder) :
     propOrder \in Orders(DOMAIN schema.properties), keyOrder \in Orders(DOMAIN props)}

\* the mutant of cutPrefix: the prefix is cut without being compared
cutPrefix_Unchecked(raw, prefix) ==
  [src |-> Drop(raw, IF Len(raw) < Len(prefix) THEN Len(raw) ELSE Len(prefix)),
   err |-> NoErr]

cutPrefix(raw, prefix) ==
  IF prefix = <<>> THEN [src |-> raw, err |-> NoErr]
  ELSE IF Len(raw) < Len(prefix) \/ Take(raw, Len(prefix)) # prefix
  THEN [src |-> <<>>,
        err |-> ParseError("InvalidFormat", Str(raw),
                           <<"a value must be prefixed with %q", prefix>>, NoErr, <<>>)]
  ELSE [src |-> Drop(raw, Len(prefix)), err |-> NoErr]

\* d.pathParams[param] is missing or empty (pathParams is NilMap or Props)
pathValueMissing(pathParams, param) ==
  \/ pathParams = NilMap
  \/ param \notin DOMAIN pathParams.m
  \/ pathParams.m[param] = <<>>

\* ";" + param + "="
matrixPrefix(param) == <<";">> \o param \o <<"=">>

\* the switch of pathParamDecoder.DecodePrimitive
pathPrimitiveSeparators(param, sm) ==
  CASE sm.style = "simple" -> [valid |-> TRUE, prefix |-> <<>>]
    [] sm.style = "label" -> [valid |-> TRUE, prefix |-> <<".">>]
    [] sm.style = "matrix" -> [valid |-> TRUE, prefix |-> matrixPrefix(param)]
    [] OTHER -> [valid |-> FALSE, prefix |-> <<>>]

pathDecodePrimitive(pathParams, param, sm, schema) ==
  With(pathPrimitiveSeparators(param, sm), LAMBDA seps :
    IF ~seps.valid THEN Decoded(Null, FALSE, invalidSerializationMethodErr(sm))
    ELSE IF pathValueMissing(pathParams, param) THEN Decoded(Null, FALSE, NoErr)
    ELSE With(cutPrefix(pathParams.m[param], seps.prefix), LAMBDA cut :
           IF IsErr(cut.err) THEN Decoded(Null, TRUE, cut.err)
           ELSE With(parsePrimitive(cut.src, schema), LAMBDA val :
                  Decoded(val.v, TRUE, val.err))))

\* the mutant of pathArraySeparators: label with explode splits by ","
pathArraySeparators_LabelComma(param, sm) ==
  CASE sm.style = "simple" -> [valid |-> TRUE, prefix |-> <<>>, delim |-> <<",">>]
    [] sm.style = "label" -> [valid |-> TRUE, prefix |-> <<".">>, delim |-> <<",">>]
    [] sm.style = "matrix" /\ ~sm.explode ->
         [valid |-> TRUE, prefix |-> matrixPrefix(param), delim |-> <<",">>]
    [] sm.style = "matrix" /\ sm.explode ->
         [valid |-> TRUE, prefix |-> matrixPrefix(param), delim |-> matrixPrefix(param)]
    [] OTHER -> [valid |-> FALSE, prefix |-> <<>>, delim |-> <<>>]

\* the switch of pathParamDecoder.DecodeArray
pathArraySeparators(param, sm) ==
  CASE sm.style = "simple" -> [valid |-> TRUE, prefix |-> <<>>, delim |-> <<",">>]
    [] sm.style = "label" /\ ~sm.explode ->
         [valid |-> TRUE, prefix |-> <<".">>, delim |-> <<",">>]
    [] sm.style = "label" /\ sm.explode ->
         [valid |-> TRUE, prefix |-> <<".">>, delim |-> <<".">>]
    [] sm.style = "matrix" /\ ~sm.explode ->
         [valid |-> TRUE, prefix |-> matrixPrefix(param), delim |-> <<",">>]
    [] sm.style = "matrix" /\ sm.explode ->
         [valid |-> TRUE, prefix |-> matrixPrefix(param), delim |-> matrixPrefix(param)]
    [] OTHER -> [valid |-> FALSE, prefix |-> <<>>, delim |-> <<>>]

pathDecodeArray(pathParams, param, sm, schema) ==
  With(pathArraySeparators(param, sm), LAMBDA seps :
    IF ~seps.valid THEN Decoded(NilSlice, FALSE, invalidSerializationMethodErr(sm))
    ELSE IF pathValueMissing(pathParams, param) THEN Decoded(NilSlice, FALSE, NoErr)
    ELSE With(cutPrefix(pathParams.m[param], seps.prefix), LAMBDA cut :
           IF IsErr(cut.err) THEN Decoded(NilSlice, TRUE, cut.err)
           ELSE With(parseArray(Split(cut.src, seps.delim), schema), LAMBDA val :
                  Decoded(val.v, TRUE, val.err))))

\* the switch of pathParamDecoder.DecodeObject
pathObjectSeparators(param, sm) ==
  CASE sm.style = "simple" /\ ~sm.explode ->
         [valid |-> TRUE, prefix |-> <<>>, propsDelim |-> <<",">>, valueDelim |-> <<",">>]
    [] sm.style = "simple" /\ sm.explode ->
         [valid |-> TRUE, prefix |-> <<>>, propsDelim |-> <<",">>, valueDelim |-> <<"=">>]
    [] sm.style = "label" /\ ~sm.explode ->
         [valid |-> TRUE, prefix |-> <<".">>, propsDelim |-> <<",">>, valueDelim |-> <<",">>]
    [] sm.style = "label" /\ sm.explode ->
         [valid |-> TRUE, prefix |-> <<".">>, propsDelim |-> <<".">>, valueDelim |-> <<"=">>]
    [] sm.style = "matrix" /\ ~sm.explode ->
         [valid |-> TRUE, prefix |-> matrixPrefix(param),
          propsDelim |-> <<",">>, valueDelim |-> <<",">>]
    [] sm.style = "matrix" /\ sm.explode ->
         [valid |-> TRUE, prefix |-> <<";">>, propsDelim |-> <<";">>, valueDelim |-> <<"=">>]
    [] OTHER ->
         [valid |-> FALSE, prefix |-> <<>>, propsDelim |-> <<>>, valueDelim |-> <<>>]

\* pathParamDecoder.DecodeObject: the results it may return
pathDecodeObject(pathParams, param, sm, schema) ==
  With(pathObjectSeparators(param, sm), LAMBDA seps :
    IF ~seps.valid THEN {Decoded(NilMap, FALSE, invalidSerializationMethodErr(sm))}
    ELSE IF pathValueMissing(pathParams, param) THEN {Decoded(NilMap, FALSE, NoErr)}
    ELSE With(cutPrefix(pathParams.m[param], seps.prefix), LAMBDA cut :
           IF IsErr(cut.err) THEN {Decoded(NilMap, TRUE, cut.err)}
           ELSE With(propsFromString(cut.src, seps.propsDelim, seps.valueDelim),
                     LAMBDA props :
                  IF IsErr(props.err) THEN {Decoded(NilMap, TRUE, props.err)}
                  ELSE {ObjectDecoded(made, TRUE) :
                          made \in makeObjectOutcomes(props.v.m, schema)})))

\* d.values[param]: its values, none when the key is missing
urlValues(values, param) == IF param \in DOMAIN values THEN values[param] ELSE <<>>

urlDecodePrimitive(values, param, sm, schema) ==
  With(urlValues(values, param), LAMBDA vals :
    IF sm.style # "form" THEN Decoded(Null, FALSE, invalidSerializationMethodErr(sm))
    ELSE IF Len(vals) = 0 THEN Decoded(Null, param \in DOMAIN values, NoErr)
    ELSE IF schema.type = <<>> /\ schema.pattern # ""
    THEN Decoded(Str(vals[1]), param \in DOMAIN values, NoErr)
    ELSE With(parsePrimitive(vals[1], schema), LAMBDA val :
           Decoded(val.v, param \in DOMAIN values, val.err)))

\* the delimiter of urlValuesDecoder.DecodeArray without explode; the switch
\* has no default, so any other style leaves delim ""
urlArrayDelimiter(sm) ==
  CASE sm.style = "form" -> <<",">>
    [] sm.style = "spaceDelimited" -> <<" ">>
    [] sm.style = "pipeDelimited" -> <<"|">>
    [] OTHER -> <<>>

urlDecodeArray(values, param, sm, schema) ==
  With(urlValues(values, param), LAMBDA vals :
    IF sm.style = "deepObject"
    THEN Decoded(NilSlice, FALSE, invalidSerializationMethodErr(sm))
    ELSE IF Len(vals) = 0 THEN Decoded(NilSlice, param \in DOMAIN values, NoErr)
    ELSE With(urlParseArray(IF sm.explode THEN vals
                            ELSE Split(vals[1], urlArrayDelimiter(sm)),
                            schema),
              LAMBDA val : Decoded(val.v, param \in DOMAIN values, val.err)))

\* regexp `\[(.*?)\]`, FindAllStringSubmatch(key, -1): the submatches, each
\* the text between a "[" and the first "]" after it
RECURSIVE bracketMatches(_)
bracketMatches(key) ==
  With(Index(key, <<"[">>), LAMBDA open :
    IF open < 0 THEN <<>>
    ELSE With(Drop(key, open + 1), LAMBDA rest :
           With(Index(rest, <<"]">>), LAMBDA close :
             IF close < 0 THEN <<>>
             ELSE <<Take(rest, close)>> \o bracketMatches(Drop(rest, close + 1)))))

\* propsFn of style form; NilMap is the nil map
formProps(params, param, sm) ==
  IF DOMAIN params = {} THEN R(NilMap, NoErr)
  ELSE IF sm.explode THEN R(Props([key \in DOMAIN params |-> params[key][1]]), NoErr)
  ELSE IF Len(urlValues(params, param)) = 0 THEN R(NilMap, NoErr)
  ELSE propsFromString(params[param][1], <<",">>, <<",">>)

\* the loop of propsFn of style deepObject over params, visited in paramOrder
RECURSIVE deepObjectPropsLoop(_, _, _, _)
deepObjectPropsLoop(params, paramOrder, i, props) ==
  IF i > Len(paramOrder) THEN props
  ELSE With(bracketMatches(paramOrder[i]), LAMBDA matches :
         IF Len(matches) = 0
         THEN deepObjectPropsLoop(params, paramOrder, i + 1, props)
         ELSE IF Len(matches) = 1
         THEN deepObjectPropsLoop(params, paramOrder, i + 1,
                MapSet(props, matches[1], Join(params[paramOrder[i]], <<US>>)))
         ELSE deepObjectPropsLoop(params, paramOrder, i + 1,
                MapSet(props, Join(matches, <<US>>), Join(params[paramOrder[i]], <<US>>))))

\* propsFn of style deepObject
deepObjectProps(params, paramOrder) ==
  With(deepObjectPropsLoop(params, paramOrder, 1, <<>>), LAMBDA props :
    IF DOMAIN props = {} THEN R(NilMap, NoErr) ELSE R(Props(props), NoErr))

\* deepGet(m, keys...): (value, ok)
RECURSIVE deepGet(_, _)
deepGet(m, keys) ==
  IF Len(keys) = 0 THEN [v |-> Obj(m), ok |-> TRUE]
  ELSE IF keys[1] \notin DOMAIN m THEN [v |-> Null, ok |-> FALSE]
  ELSE IF m[keys[1]].k # "object" THEN [v |-> m[keys[1]], ok |-> TRUE]
  ELSE deepGet(m[keys[1]].o, Tail(keys))

\* the found flag urlValuesDecoder.DecodeObject computes after makeObject
urlObjectFound(props, schema, val) ==
  \E propName \in DOMAIN schema.properties :
    \/ propName \in DOMAIN props
    \/ /\ Permits(schema, "array") \/ Permits(schema, "object")
       /\ \E key \in DOMAIN props : deepGet(val, Split(key, <<US>>)).ok

\* the part of urlValuesDecoder.DecodeObject after propsFn
urlObjectFromProps(props, schema) ==
  IF IsErr(props.err) THEN {Decoded(NilMap, FALSE, props.err)}
  ELSE IF props.v = NilMap THEN {Decoded(NilMap, FALSE, NoErr)}
  ELSE {IF made.panic THEN DecodePanic
        ELSE IF IsErr(made.err) THEN Decoded(NilMap, FALSE, made.err)
        ELSE Decoded(made.v, urlObjectFound(props.v.m, schema, made.v.o), NoErr) :
          made \in makeObjectOutcomes(props.v.m, schema)}

\* urlValuesDecoder.DecodeObject: the results it may return
urlDecodeObject(values, param, sm, schema) ==
  IF sm.style \notin {"form", "deepObject"}
  THEN {Decoded(NilMap, FALSE, invalidSerializationMethodErr(sm))}
  ELSE UNION {urlObjectFromProps(props, schema) :
                props \in IF sm.style = "form" THEN {formProps(values, param, sm)}
                          ELSE {deepObjectProps(values, paramOrder) :
                                  paramOrder \in Orders(DOMAIN values)}}

\* the upper and lower case of the letters of the model
ToUpper(c) == CASE c = "k" -> "K" [] c = "j" -> "J" [] c = "t" -> "T" [] OTHER -> c

ToLower(c) == CASE c = "K" -> "k" [] c = "J" -> "j" [] c = "T" -> "t" [] OTHER -> c

\* http.CanonicalHeaderKey for a name of letters, digits and "-": the first
\* letter and every letter after a "-" in upper case, the others in lower case
CanonicalHeaderKey(name) ==
  [i \in 1..Len(name) |->
     IF i = 1 \/ name[i - 1] = "-" THEN ToUpper(name[i]) ELSE ToLower(name[i])]

\* "raw, ok := d.header[http.CanonicalHeaderKey(param)]; !ok || len(raw) == 0"
headerValueMissing(header, param) ==
  \/ CanonicalHeaderKey(param) \notin DOMAIN header
  \/ Len(header[CanonicalHeaderKey(param)]) = 0

headerDecodePrimitive(header, param, sm, schema) ==
  With(CanonicalHeaderKey(param), LAMBDA key :
    IF sm.style # "simple" THEN Decoded(Null, FALSE, invalidSerializationMethodErr(sm))
    ELSE IF headerValueMissing(header, param) THEN Decoded(Null, key \in DOMAIN header, NoErr)
    ELSE With(parsePrimitive(header[key][1], schema), LAMBDA val :
           Decoded(val.v, TRUE, val.err)))

headerDecodeArray(header, param, sm, schema) ==
  With(CanonicalHeaderKey(param), LAMBDA key :
    IF sm.style # "simple"
    THEN Decoded(NilSlice, FALSE, invalidSerializationMethodErr(sm))
    ELSE IF headerValueMissing(header, param)
    THEN Decoded(NilSlice, key \in DOMAIN header, NoErr)
    ELSE With(parseArray(Split(header[key][1], <<",">>), schema), LAMBDA val :
           Decoded(val.v, TRUE, val.err)))

\* headerParamDecoder.DecodeObject: the results it may return
headerDecodeObject(header, param, sm, schema) ==
  With(CanonicalHeaderKey(param), LAMBDA key :
    IF sm.style # "simple" THEN {Decoded(NilMap, FALSE, invalidSerializationMethodErr(sm))}
    ELSE IF headerValueMissing(header, param)
    THEN {Decoded(NilMap, key \in DOMAIN header, NoErr)}
    ELSE With(propsFromString(header[key][1], <<",">>,
                              IF sm.explode THEN <<"=">> ELSE <<",">>),
              LAMBDA props :
           IF IsErr(props.err) THEN {Decoded(NilMap, TRUE, props.err)}
           ELSE {ObjectDecoded(made, TRUE) :
                   made \in makeObjectOutcomes(props.v.m, schema)}))

\* d.req.Cookie(param) over the cookies of the request, a map from the name
\* to the value of the first cookie of that name: err is http.ErrNoCookie
\* or nil
Cookie(cookies, param) ==
  IF param \in DOMAIN cookies THEN [value |-> cookies[param], err |-> NoErr]
  ELSE [value |-> <<>>, err |-> PlainError("http: named cookie not present", param)]

cookieDecodePrimitive(cookies, param, sm, schema) ==
  With(Cookie(cookies, param), LAMBDA cookie :
    IF sm.style # "form" THEN Decoded(Null, FALSE, invalidSerializationMethodErr(sm))
    ELSE IF IsErr(cookie.err) THEN Decoded(Null, FALSE, NoErr)
    ELSE With(parsePrimitive(cookie.value, schema), LAMBDA val :
           Decoded(val.v, TRUE, val.err)))

cookieDecodeArray(cookies, param, sm, schema) ==
  With(Cookie(cookies, param), LAMBDA cookie :
    IF sm.style # "form" \/ sm.explode
    THEN Decoded(NilSlice, FALSE, invalidSerializationMethodErr(sm))
    ELSE IF IsErr(cookie.err) THEN Decoded(NilSlice, FALSE, NoErr)
    ELSE With(parseArray(Split(cookie.value, <<",">>), schema), LAMBDA val :
           Decoded(val.v, TRUE, val.err)))

\* cookieParamDecoder.DecodeObject: the results it may return
cookieDecodeObject(cookies, param, sm, schema) ==
  With(Cookie(cookies, param), LAMBDA cookie :
    IF sm.style # "form" \/ sm.explode
    THEN {Decoded(NilMap, FALSE, invalidSerializationMethodErr(sm))}
    ELSE IF IsErr(cookie.err) THEN {Decoded(NilMap, FALSE, NoErr)}
    ELSE With(propsFromString(cookie.value, <<",">>, <<",">>), LAMBDA props :
           IF IsErr(props.err) THEN {Decoded(NilMap, TRUE, props.err)}
           ELSE {ObjectDecoded(made, TRUE) :
                   made \in makeObjectOutcomes(props.v.m, schema)}))

(***************************************************************************)
(* body decoder registry                                                   *)
(***************************************************************************)

\* A content type is a list of tokens: the media type, then ";" and the
\* parameters, e.g. <<"text/plain", ";", "charset=utf-8">>; "" is <<>>.
EmptyCT == <<>>

NilDecoder == "nil"

\* the registrations of init()
BuiltinDecoders ==
  (<<"application/json">> :> "JSONBodyDecoder") @@
  (<<"application/json-patch+json">> :> "JSONBodyDecoder") @@
  (<<"application/octet-stream">> :> "FileBodyDecoder") @@
  (<<"application/problem+json">> :> "JSONBodyDecoder") @@
  (<<"application/x-www-form-urlencoded">> :> "urlencodedBodyDecoder") @@
  (<<"application/x-yaml">> :> "yamlBodyDecoder") @@
  (<<"application/yaml">> :> "yamlBodyDecoder") @@
  (<<"application/zip">> :> "zipFileBodyDecoder") @@
  (<<"multipart/form-data">> :> "multipartBodyDecoder") @@
  (<<"text/csv">> :> "csvBodyDecoder") @@
  (<<"text/plain">> :> "plainBodyDecoder")

\* content types the calls of the model are made with
ContentTypes ==
  { EmptyCT,
    <<"text/plain">>,
    <<"text/plain", ";", "charset=utf-8">>,
    <<"application/x-custom">>,
    <<"application/x-custom", ";", "v=1">> }

\* decoders the calls of the model register
Decoders == {NilDecoder, "customA", "customB"}

\* contentType[:strings.IndexByte(contentType, ';')], or contentType itself
parseMediaType(contentType) ==
  LET i == Index(contentType, <<";">>)
  IN  IF i < 0 THEN contentType ELSE Take(contentType, i)

\* the mutant of MapDelete: the entry is kept
MapDelete_Keep(m, key) == m

\* delete(m, key)
MapDelete(m, key) == [k \in (DOMAIN m) \ {key} |-> m[k]]

Panic(msg) == [panic |-> TRUE, msg |-> msg]

Returned(v) == [panic |-> FALSE] @@ v

RegisteredBodyDecoder(contentType) ==
  /\ call' = [op |-> "RegisteredBodyDecoder", contentType |-> contentType]
  /\ ret' = Returned([decoder |-> IF contentType \in DOMAIN bodyDecoders
                                  THEN bodyDecoders[contentType]
                                  ELSE NilDecoder])
  /\ UNCHANGED <<bodyDecoders, lastReg>>

\* the mutant of registerPanic: the nil check on the decoder is missing
registerPanic_NoNilCheck(contentType, decoder) ==
  IF contentType = EmptyCT THEN "contentType is empty" ELSE ""

\* the panic message of RegisterBodyDecoder's checks, "" when it does not panic
registerPanic(contentType, decoder) ==
  IF contentType = EmptyCT THEN "contentType is empty"
  ELSE IF decoder = NilDecoder THEN "decoder is not defined"
  ELSE ""

RegisterBodyDecoder(contentType, decoder) ==
  /\ call' = [op |-> "RegisterBodyDecoder", contentType |-> contentType, decoder |-> decoder]
  /\ IF registerPanic(contentType, decoder) # ""
     THEN /\ ret' = Panic(registerPanic(contentType, decoder))
          /\ UNCHANGED <<bodyDecoders, lastReg>>
     ELSE /\ bodyDecoders' = MapSet(bodyDecoders, contentType, decoder)
          /\ lastReg' = MapSet(lastReg, contentType, decoder)
          /\ ret' = Returned(<<>>)

UnregisterBodyDecoder(contentType) ==
  /\ call' = [op |-> "UnregisterBodyDecoder", contentType |-> contentType]
  /\ IF contentType = EmptyCT
     THEN /\ ret' = Panic("contentType is empty")
          /\ UNCHANGED <<bodyDecoders, lastReg>>
     ELSE /\ bodyDecoders' = MapDelete(bodyDecoders, contentType)
          /\ lastReg' = MapSet(lastReg, contentType, NilDecoder)
          /\ ret' = Returned(<<>>)

\* lastReg is a history variable: for every content type that a non-panicking
\* registry call (or init) was made for, the decoder of the last such call,
\* NilDecoder when that call was UnregisterBodyDecoder.

\* decodeBody: the decoder is a caller-supplied function; what it returns for
\* the body (a value, or an error of its own) is an input of the call.
decodeBody(contentTypeHeader, isMultipartPart, decoderFails) ==
  LET contentType == IF contentTypeHeader = EmptyCT /\ isMultipartPart
                     THEN <<"text/plain">> ELSE contentTypeHeader
      mediaType == parseMediaType(contentType)
  IN  /\ call' = [op |-> "decodeBody", contentType |-> contentTypeHeader,
                  isMultipartPart |-> isMultipartPart, decoderFails |-> decoderFails]
      /\ ret' = IF mediaType \notin DOMAIN bodyDecoders
                THEN Returned([mediaType |-> EmptyCT, value |-> Null, invoked |-> NilDecoder,
                               err |-> ParseError("UnsupportedFormat", Null,
                                                  <<"unsupported content type", mediaType>>,
                                                  NoErr, <<>>)])
                ELSE IF decoderFails
                THEN Returned([mediaType |-> EmptyCT, value |-> Null,
                               invoked |-> bodyDecoders[mediaType],
                               err |-> PlainError("decoder error", bodyDecoders[mediaType])])
                ELSE Returned([mediaType |-> mediaType,
                               value |-> [k |-> "decoded", by |-> bodyDecoders[mediaType]],
                               invoked |-> bodyDecoders[mediaType],
                               err |-> NoErr])
      /\ UNCHANGED <<bodyDecoders, lastReg>>

NoCall == [op |-> "none"]

InitRegistry ==
  /\ bodyDecoders = BuiltinDecoders
  /\ lastReg = BuiltinDecoders
  /\ call = NoCall
  /\ ret = Returned(<<>>)

NextRegistry ==
  \/ \E ct \in ContentTypes : RegisteredBodyDecoder(ct)
  \/ \E ct \in ContentTypes, d \in Decoders : RegisterBodyDecoder(ct, d)
  \/ \E ct \in ContentTypes : UnregisterBodyDecoder(ct)
  \/ \E ct \in ContentTypes, part \in BOOLEAN, fails \in BOOLEAN : decodeBody(ct, part, fails)

SpecRegistry == InitRegistry /\ [][NextRegistry]_vars

(***************************************************************************)
(* the parsers and the splitter, called on bounded inputs                  *)
(***************************************************************************)

\* all sequences over a set of at most n elements
SeqsUpTo(S, n) == UNION {[1..m -> S] : m \in 0..n}

MaxRawLen == 3

MaxTypes == 2

MaxItems == 3

MaxSrcLen == 6

PrimitiveRaws == SeqsUpTo({"1", "t", "."}, MaxRawLen)

PrimitiveSchemas ==
  {Typed(ts) : ts \in SeqsUpTo({"integer", "number", "boolean", "string", "array"}, MaxTypes)}
    \cup {Int32Schema}

ArrayRaws == SeqsUpTo({<<>>, <<"1">>, <<"t">>}, MaxItems)

ArraySchemas ==
  {ArrayOf(items) : items \in {StringSchema, IntegerSchema, BooleanSchema,
                               Typed(<<"integer", "string">>), Untyped}}

UrlArraySchemas ==
  ArraySchemas \cup
  {ArrayOf(items) : items \in {AnyOf(<<IntegerSchema, BooleanSchema>>),
                               OneOf(<<IntegerSchema, BooleanSchema>>),
                               OneOf(<<IntegerSchema>>),
                               AllOf(<<IntegerSchema, StringSchema>>),
                               Not(StringSchema)}}

PropsSources == SeqsUpTo({"k", ",", "="}, MaxSrcLen)

\* the (propDelim, valueDelim) pairs the decoders call propsFromString with
PropsDelims == {<<",", ",">>, <<",", "=">>, <<".", "=">>, <<";", "=">>}

\* the call has not returned yet
Pending == [pending |-> TRUE]

HasReturned == ret # Pending

CallParsePrimitive ==
  /\ call.op = "parsePrimitive" /\ ~HasReturned
  /\ ret' = parsePrimitive(call.raw, call.schema)
  /\ UNCHANGED <<bodyDecoders, lastReg, call>>

CallParseArray ==
  /\ call.op = "parseArray" /\ ~HasReturned
  /\ ret' = parseArray(call.raw, call.schema)
  /\ UNCHANGED <<bodyDecoders, lastReg, call>>

CallUrlParseArray ==
  /\ call.op = "urlValuesDecoder.parseArray" /\ ~HasReturned
  /\ ret' = urlParseArray(call.raw, call.schema)
  /\ UNCHANGED <<bodyDecoders, lastReg, call>>

CallPropsFromString ==
  /\ call.op = "propsFromString" /\ ~HasReturned
  /\ ret' = propsFromString(call.src, <<call.propDelim>>, <<call.valueDelim>>)
  /\ UNCHANGED <<bodyDecoders, lastReg, call>>

InitParsers ==
  /\ bodyDecoders = BuiltinDecoders
  /\ lastReg = BuiltinDecoders
  /\ \/ \E raw \in PrimitiveRaws, schema \in PrimitiveSchemas :
          call = [op |-> "parsePrimitive", raw |-> raw, schema |-> schema]
     \/ \E raw \in ArrayRaws, schema \in ArraySchemas :
          call = [op |-> "parseArray", raw |-> raw, schema |-> schema]
     \/ \E raw \in ArrayRaws, schema \in UrlArraySchemas :
          call = [op |-> "urlValuesDecoder.parseArray", raw |-> raw, schema |-> schema]
     \/ \E src \in PropsSources, d \in PropsDelims :
          call = [op |-> "propsFromString", src |-> src,
                  propDelim |-> d[1], valueDelim |-> d[2]]
  /\ ret = Pending

NextParsers ==
  \/ CallParsePrimitive
  \/ CallParseArray
  \/ CallUrlParseArray
  \/ CallPropsFromString

SpecParsers == InitParsers /\ [][NextParsers]_vars

(***************************************************************************)
(* specification of the object assembler: one call of makeObject on a      *)
(* flat property map, an object schema and the two map iteration orders    *)
(***************************************************************************)

MaxProps == 2

\* the keys of a flat property map: nested segments are joined by US
ObjectKeys ==
  {<<"k">>, <<"j">>, <<"t">>, <<"k", US, "j">>, <<"k", US, "t">>,
   <<"k", US, "j", US, "t">>}

ObjectValues == {<<>>, <<"1">>, <<"t">>, <<"1", US, "1">>}

FlatProperties == (<<"k">> :> IntegerSchema) @@ (<<"j">> :> StringSchema)

\* an untyped schema whose additionalProperties is a string schema
UntypedWithAdditional ==
  [Untyped EXCEPT !.additionalProperties = [has |-> "nil", schema |-> StringSchema]]

ObjectSchemas ==
  {[ObjectOf(FlatProperties) EXCEPT !.additionalProperties = ap] :
     ap \in {NoAdditionalProperties,
             [has |-> "true", schema |-> NilSchema],
             [has |-> "false", schema |-> NilSchema],
             [has |-> "nil", schema |-> StringSchema]}}
  \cup {ObjectOf((<<"k">> :> ArrayOf(IntegerSchema)) @@ (<<"j">> :> StringSchema)),
         ObjectOf((<<"k">> :> IntegerSchema) @@ (<<"j">> :> IntegerSchema)),
         ObjectOf((<<"k">> :> ArrayOf(StringSchema)) @@ (<<"j">> :> ArrayOf(BooleanSchema))),
         ObjectOf(<<"k">> :> ObjectOf(<<"j">> :> ObjectOf(<<"t">> :> IntegerSchema)))}
  \cup {ObjectOf(<<"k">> :> [ObjectOf(<<"j">> :> IntegerSchema)
                              EXCEPT !.additionalProperties = ap]) :
          ap \in {NoAdditionalProperties,
                  [has |-> "nil", schema |-> StringSchema],
                  [has |-> "nil", schema |-> UntypedWithAdditional]}}

CallMakeObject ==
  /\ call.op = "makeObject" /\ ~HasReturned
  /\ ret' = makeObject(call.props, call.schema, call.propOrder, call.keyOrder)
  /\ UNCHANGED <<bodyDecoders, lastReg, call>>

InitObjects ==
  /\ bodyDecoders = BuiltinDecoders
  /\ lastReg = BuiltinDecoders
  /\ \E keys \in SUBSET ObjectKeys :
       /\ Cardinality(keys) <= MaxProps
       /\ \E props \in [keys -> ObjectValues], schema \in ObjectSchemas :
            \E propOrder \in Orders(DOMAIN schema.properties), keyOrder \in Orders(keys) :
              call = [op |-> "makeObject", props |-> props, schema |-> schema,
                      propOrder |-> propOrder, keyOrder |-> keyOrder]
  /\ ret = Pending

NextObjects == CallMakeObject

SpecObjects == InitObjects /\ [][NextObjects]_vars

(***************************************************************************)
(* specification of the value decoders: one call of a Decode method of a   *)
(* decoder on an input surface, for the parameter ParamName                *)
(***************************************************************************)

MaxBodyTokens == 3

ParamName == <<"k">>

Styles ==
  {"simple", "label", "matrix", "form", "spaceDelimited", "pipeDelimited", "deepObject"}

SerializationMethods == {SerializationMethod(style, explode) : style \in Styles, explode \in BOOLEAN}

\* an untyped schema with a pattern
PatternSchema == [Untyped EXCEPT !.pattern = "^1$"]

NestedObjectSchema == ObjectOf(<<"k">> :> ObjectOf(<<"j">> :> IntegerSchema))

\* the schemas of a call of the method op of the decoder
ParamSchemas(decoder, op) ==
  CASE op = "DecodePrimitive" ->
         IF decoder = "query" THEN {IntegerSchema, PatternSchema} ELSE {IntegerSchema}
    [] op = "DecodeArray" -> {ArrayOf(IntegerSchema), ArrayOf(StringSchema)}
    [] op = "DecodeObject" ->
         IF decoder = "query" THEN {ObjectOf(FlatProperties), NestedObjectSchema}
         ELSE {ObjectOf(FlatProperties)}

\* raw values of a path parameter: a prefix, then up to MaxBodyTokens tokens
PathPrefixes == {<<>>, <<".">>, <<";">>, matrixPrefix(ParamName)}

PathBodyTokens == {<<"1">>, <<"k">>, <<",">>, <<".">>, <<"=">>, matrixPrefix(ParamName)}

PathRaws ==
  {prefix \o Join(body, <<>>) :
     prefix \in PathPrefixes, body \in SeqsUpTo(PathBodyTokens, MaxBodyTokens)}

\* d.pathParams: nil, without the parameter, or with a raw value for it
PathParams == {NilMap, Props(<<>>)} \cup {Props(ParamName :> raw) : raw \in PathRaws}

QueryKeys ==
  {<<"k">>, <<"j">>, <<"k", "[", "j", "]">>, <<"t", "[", "j", "]">>,
   <<"k", "[", "k", "]", "[", "j", "]">>}

QueryValueLists ==
  {<< <<"1">> >>, << <<"k">> >>, << <<"1", ",", "1">> >>, << <<"k", ",", "1">> >>,
   << <<"1">>, <<"1">> >>, << <<"1", "|", "1">> >>}

\* d.values: up to MaxProps keys, each with its list of values
QueryValues ==
  UNION {[keys -> QueryValueLists] :
           keys \in {ks \in SUBSET QueryKeys : Cardinality(ks) <= MaxProps}}

HeaderRaws == SeqsUpTo({"1", "k", ",", "="}, MaxRawLen)

\* d.header: empty, or one value under the canonical or the plain name
Headers ==
  {<<>>} \cup {name :> <<raw>> : name \in {ParamName, CanonicalHeaderKey(ParamName)},
                                 raw \in HeaderRaws}

\* the cookies of d.req: none, or one cookie of the name
Cookies == {<<>>} \cup {ParamName :> raw : raw \in HeaderRaws}

DecodeOps == {"DecodePrimitive", "DecodeArray", "DecodeObject"}

\* the arguments of the call are those of a call of op on the decoder
IsCall(decoder, op) == call.decoder = decoder /\ call.op = op /\ ~HasReturned

PathDecodePrimitive ==
  /\ IsCall("path", "DecodePrimitive")
  /\ ret' = pathDecodePrimitive(call.input, call.param, call.sm, call.schema)
  /\ UNCHANGED <<bodyDecoders, lastReg, call>>

PathDecodeArray ==
  /\ IsCall("path", "DecodeArray")
  /\ ret' = pathDecodeArray(call.input, call.param, call.sm, call.schema)
  /\ UNCHANGED <<bodyDecoders, lastReg, call>>

PathDecodeObject ==
  /\ IsCall("path", "DecodeObject")
  /\ ret' \in pathDecodeObject(call.input, call.param, call.sm, call.schema)
  /\ UNCHANGED <<bodyDecoders, lastReg, call>>

QueryDecodePrimitive ==
  /\ IsCall("query", "DecodePrimitive")
  /\ ret' = urlDecodePrimitive(call.input, call.param, call.sm, call.schema)
  /\ UNCHANGED <<bodyDecoders, lastReg, call>>

QueryDecodeArray ==
  /\ IsCall("query", "DecodeArray")
  /\ ret' = urlDecodeArray(call.input, call.param, call.sm, call.schema)
  /\ UNCHANGED <<bodyDecoders, lastReg, call>>

QueryDecodeObject ==
  /\ IsCall("query", "DecodeObject")
  /\ ret' \in urlDecodeObject(call.input, call.param, call.sm, call.schema)
  /\ UNCHANGED <<bodyDecoders, lastReg, call>>

HeaderDecodePrimitive ==
  /\ IsCall("header", "DecodePrimitive")
  /\ ret' = headerDecodePrimitive(call.input, call.param, call.sm, call.schema)
  /\ UNCHANGED <<bodyDecoders, lastReg, call>>

HeaderDecodeArray ==
  /\ IsCall("header", "DecodeArray")
  /\ ret' = headerDecodeArray(call.input, call.param, call.sm, call.schema)
  /\ UNCHANGED <<bodyDecoders, lastReg, call>>

HeaderDecodeObject ==
  /\ IsCall("header", "DecodeObject")
  /\ ret' \in headerDecodeObject(call.input, call.param, call.sm, call.schema)
  /\ UNCHANGED <<bodyDecoders, lastReg, call>>

CookieDecodePrimitive ==
  /\ IsCall("cookie", "DecodePrimitive")
  /\ ret' = cookieDecodePrimitive(call.input, call.param, call.sm, call.schema)
  /\ UNCHANGED <<bodyDecoders, lastReg, call>>

CookieDecodeArray ==
  /\ IsCall("cookie", "DecodeArray")
  /\ ret' = cookieDecodeArray(call.input, call.param, call.sm, call.schema)
  /\ UNCHANGED <<bodyDecoders, lastReg, call>>

CookieDecodeObject ==
  /\ IsCall("cookie", "DecodeObject")
  /\ ret' \in cookieDecodeObject(call.input, call.param, call.sm, call.schema)
  /\ UNCHANGED <<bodyDecoders, lastReg, call>>

\* a call of a Decode method of the decoder on one of the inputs
InitCall(decoder, inputs) ==
  /\ bodyDecoders = BuiltinDecoders
  /\ lastReg = BuiltinDecoders
  /\ \E op \in DecodeOps, input \in inputs, sm \in SerializationMethods :
       \E schema \in ParamSchemas(decoder, op) :
         call = [decoder |-> decoder, op |-> op, input |-> input, param |-> ParamName,
                 sm |-> sm, schema |-> schema]
  /\ ret = Pending

InitPathDecoder == InitCall("path", PathParams)

NextPathDecoder ==
  \/ PathDecodePrimitive
  \/ PathDecodeArray
  \/ PathDecodeObject

SpecPathDecoder == InitPathDecoder /\ [][NextPathDecoder]_vars

InitDecoders ==
  \/ InitCall("path", PathParams)
  \/ InitCall("query", QueryValues)
  \/ InitCall("header", Headers)
  \/ InitCall("cookie", Cookies)

NextDecoders ==
  \/ PathDecodePrimitive
  \/ PathDecodeArray
  \/ PathDecodeObject
  \/ QueryDecodePrimitive
  \/ QueryDecodeArray
  \/ QueryDecodeObject
  \/ HeaderDecodePrimitive
  \/ HeaderDecodeArray
  \/ HeaderDecodeObject
  \/ CookieDecodePrimitive
  \/ CookieDecodeArray
  \/ CookieDecodeObject

SpecDecoders == InitDecoders /\ [][NextDecoders]_vars

(***************************************************************************)
(* C1, C2: the registry                                                    *)
(***************************************************************************)

\* the media type of a body, parameters stripped; a multipart part without
\* Content-Type is text/plain
BareMediaType(c) ==
  IF c.contentType = EmptyCT
  THEN (IF c.isMultipartPart THEN <<"text/plain">> ELSE EmptyCT)
  ELSE <<c.contentType[1]>>

CurrentlyRegistered(m) == m \in DOMAIN lastReg /\ lastReg[m] # NilDecoder

IsUnsupportedFormat(r, m) ==
  /\ r.err.kind = "UnsupportedFormat"
  /\ r.err.reason = <<"unsupported content type", m>>

\* C1: after any sequence of Register/Unregister calls, decodeBody on a body
\* of media type m returns UnsupportedFormat naming the bare m exactly when
\* the last registry call for m was not a registration; while m is registered
\* the decoder invoked is the most recently registered one.
C1_MediaTypeDispatch ==
  call.op = "decodeBody" =>
    LET m == BareMediaType(call)
    IN  /\ IsUnsupportedFormat(ret, m) <=> ~CurrentlyRegistered(m)
        /\ CurrentlyRegistered(m) => ret.invoked = lastReg[m]
        /\ ~CurrentlyRegistered(m) => ret.invoked = NilDecoder

\* C1 witness: a decoder was registered for application/x-custom and then
\* unregistered, and a body with parameters is refused
C1_Witness ==
  /\ call.op = "decodeBody"
  /\ call.contentType = <<"application/x-custom", ";", "v=1">>
  /\ <<"application/x-custom">> \in DOMAIN lastReg
  /\ lastReg[<<"application/x-custom">>] = NilDecoder
  /\ IsUnsupportedFormat(ret, <<"application/x-custom">>)

\* C2: Register panics exactly on an empty content type or a nil decoder,
\* Unregister exactly on an empty content type; a panicking call leaves the
\* registry as it was, a non-panicking call changes the entry of its content
\* type only (Register sets it, Unregister removes it), Lookup changes nothing.
C2_RegistryCalls ==
  [][ LET ct == call'.contentType
          others == \A k \in (DOMAIN bodyDecoders \cup DOMAIN bodyDecoders') \ {ct} :
                      /\ k \in DOMAIN bodyDecoders /\ k \in DOMAIN bodyDecoders'
                      /\ bodyDecoders'[k] = bodyDecoders[k]
      IN  /\ call'.op = "RegisterBodyDecoder" =>
                /\ ret'.panic <=> (ct = EmptyCT \/ call'.decoder = NilDecoder)
                /\ ret'.panic => bodyDecoders' = bodyDecoders
                /\ ~ret'.panic => /\ others
                                  /\ ct \in DOMAIN bodyDecoders'
                                  /\ bodyDecoders'[ct] = call'.decoder
          /\ call'.op = "UnregisterBodyDecoder" =>
                /\ ret'.panic <=> ct = EmptyCT
                /\ ret'.panic => bodyDecoders' = bodyDecoders
                /\ ~ret'.panic => others /\ ct \notin DOMAIN bodyDecoders'
          /\ call'.op = "RegisteredBodyDecoder" =>
                /\ ~ret'.panic
                /\ bodyDecoders' = bodyDecoders
    ]_vars

\* C2 witness: a registration of a nil decoder for a non-empty content type
\* has panicked
C2_Witness ==
  /\ call.op = "RegisterBodyDecoder"
  /\ call.contentType # EmptyCT
  /\ call.decoder = NilDecoder
  /\ ret.panic

(***************************************************************************)
(* C6: array null propagation                                              *)
(***************************************************************************)

IsArrayCall == HasReturned /\ call.op \in {"parseArray", "urlValuesDecoder.parseArray"}

\* what the item parser of the called function returns for item i
ItemResult(i) ==
  IF call.op = "parseArray"
  THEN parsePrimitive(call.raw[i], call.schema.items)
  ELSE parseValue(call.raw[i], call.schema.items)

\* C6 as claimed: an element that parses to null, at whatever position, makes
\* the result a null array with no error.
C6_Original ==
  IsArrayCall =>
    ((\E i \in 1..Len(call.raw) : ItemResult(i) = R(Null, NoErr)) => ret = R(NilSlice, NoErr))

\* the items that stop the loop: a failed item or an item parsed to null
StoppingItems ==
  {i \in 1..Len(call.raw) : IsErr(ItemResult(i).err) \/ ItemResult(i).v = Null}

FirstStoppingItem == CHOOSE i \in StoppingItems : \A j \in StoppingItems : i <= j

\* C6 amended: the result is never a sparse array.  If some element parses
\* to null and every element before it parses without error, the result is
\* the null array with no error; if an element fails before any element
\* parses to null, the result is that element's error; otherwise every
\* element is in the array, in order.
C6_AllOrNothing ==
  IsArrayCall =>
    /\ ret.v.k = "array" =>
         /\ Len(ret.v.a) = Len(call.raw)
         /\ \A i \in 1..Len(call.raw) : ret.v.a[i] = ItemResult(i).v /\ ret.v.a[i] # Null
    /\ IF StoppingItems = {}
       THEN /\ ~IsErr(ret.err)
            /\ Len(call.raw) > 0 => ret.v.k = "array"
       ELSE /\ ret.v = NilSlice
            /\ IsErr(ret.err) <=> IsErr(ItemResult(FirstStoppingItem).err)
            /\ IsErr(ret.err) => /\ ret.err.isParseError => ret.err.path = <<GoInt(FirstStoppingItem - 1)>>
                                 /\ ~ret.err.isParseError => ret.err.arg[1] = FirstStoppingItem - 1

\* C6 witness: a null element after two parsed elements gives the null array
C6_Witness ==
  /\ HasReturned
  /\ call.op = "parseArray"
  /\ call.raw = << <<"1">>, <<"1">>, <<>> >>
  /\ call.schema = ArrayOf(IntegerSchema)
  /\ ret = R(NilSlice, NoErr)

(***************************************************************************)
(* C7: the property splitter                                               *)
(***************************************************************************)

C7_Tokens == Split(call.src, <<call.propDelim>>)

C7_SameDelims == call.propDelim = call.valueDelim

C7_NumPairs == IF C7_SameDelims THEN Len(C7_Tokens) \div 2 ELSE Len(C7_Tokens)

C7_Key(i) ==
  IF C7_SameDelims THEN C7_Tokens[2 * i - 1] ELSE Split(C7_Tokens[i], <<call.valueDelim>>)[1]

C7_Value(i) ==
  IF C7_SameDelims THEN C7_Tokens[2 * i] ELSE Split(C7_Tokens[i], <<call.valueDelim>>)[2]

C7_ErrorCase ==
  IF C7_SameDelims
  THEN Len(C7_Tokens) % 2 = 1
  ELSE \E i \in 1..Len(C7_Tokens) : Len(Split(C7_Tokens[i], <<call.valueDelim>>)) # 2

C7_ErrorExactly ==
  /\ IsErr(ret.err) <=> C7_ErrorCase
  /\ IsErr(ret.err) => ret.err.isParseError /\ ret.err.kind = "InvalidFormat" /\ ret.v = NilMap
  /\ ~IsErr(ret.err) => ret.v.k = "props"

\* C7 as claimed: InvalidFormat exactly in the two cases, and otherwise a map
\* in which every token's key has that token's value.
C7_Original ==
  (HasReturned /\ call.op = "propsFromString") =>
    /\ C7_ErrorExactly
    /\ ~IsErr(ret.err) =>
         \A i \in 1..C7_NumPairs :
           C7_Key(i) \in DOMAIN ret.v.m /\ ret.v.m[C7_Key(i)] = C7_Value(i)

\* C7 amended: InvalidFormat exactly in the two cases, and otherwise a map
\* whose keys are the tokens' keys, each with the value of the last token
\* that has this key.
C7_PropsFromString ==
  (HasReturned /\ call.op = "propsFromString") =>
    /\ C7_ErrorExactly
    /\ ~IsErr(ret.err) =>
         /\ DOMAIN ret.v.m = {C7_Key(i) : i \in 1..C7_NumPairs}
         /\ \A i \in 1..C7_NumPairs :
              (\A j \in (i + 1)..C7_NumPairs : C7_Key(j) # C7_Key(i))
                => ret.v.m[C7_Key(i)] = C7_Value(i)

\* C7 witness: a key given twice keeps its last value
C7_Witness ==
  /\ HasReturned
  /\ call.op = "propsFromString"
  /\ call.src = <<"k", "=", "k", ",", "k", "=">>
  /\ call.propDelim = "," /\ call.valueDelim = "="
  /\ ret = R(Props(<<"k">> :> <<>>), NoErr)

(***************************************************************************)
(* C8: the primitive parser                                                *)
(***************************************************************************)

\* the types of the called schema that parse the raw string without error
C8_ParsingTypes ==
  {i \in 1..Len(call.schema.type) :
     ~IsErr(parsePrimitiveCase(call.raw, call.schema, call.schema.type[i]).err)}

Undeclared(key, schema) == Split(key, <<US>>)[1] \notin DOMAIN schema.properties

MakeObjectSucceeded ==
  call.op = "makeObject" /\ HasReturned /\ ~ret.panic /\ ~IsErr(ret.err)

\* C10 as stated: in a successful result every input key whose name is not
\* declared is carried into the output, unless additionalProperties permits
\* skipping it (anything but the flag false).
C10_Original ==
  MakeObjectSucceeded =>
    \A key \in DOMAIN call.props :
      Undeclared(key, call.schema) =>
        \/ key \in DOMAIN ret.v.o
        \/ call.schema.additionalProperties.has # "false"

\* the input without the keys whose name is not declared
DeclaredProps(props, schema) ==
  [key \in {x \in DOMAIN props : ~Undeclared(x, schema)} |-> props[key]]

\* C10: makeObject ignores every input key whose name is not a declared
\* property, whatever additionalProperties says: the call returns what it
\* returns on the input without these keys, and no such key is in a
\* successful result.
C10_UndeclaredIgnored ==
  (call.op = "makeObject" /\ HasReturned) =>
    /\ ret = makeObject(DeclaredProps(call.props, call.schema), call.schema,
                        call.propOrder,
                        SelectSeq(call.keyOrder, LAMBDA x : ~Undeclared(x, call.schema)))
    /\ MakeObjectSucceeded =>
         \A key \in DOMAIN call.props :
           Undeclared(key, call.schema) => key \notin DOMAIN ret.v.o

\* an undeclared key next to a declared one, additionalProperties false, and
\* a successful result with the declared properties only
C10_Witness ==
  /\ MakeObjectSucceeded
  /\ call.schema.additionalProperties.has = "false"
  /\ DOMAIN call.props = {<<"k">>, <<"t">>}
  /\ DOMAIN ret.v.o = {<<"k">>, <<"j">>}

(***************************************************************************)
(* C3, C4: found flag and serialization table of the value decoders        *)
(***************************************************************************)

DecodeReturned == call.op \in DecodeOps /\ HasReturned /\ ~ret.panic

\* the (style, explode) pairs the serialization table lists for the
\* location and shape of the call
LegalMethod ==
  CASE call.decoder = "path" -> call.sm.style \in {"simple", "label", "matrix"}
    [] call.decoder = "query" /\ call.op = "DecodePrimitive" -> call.sm.style = "form"
    [] call.decoder = "query" /\ call.op = "DecodeArray" ->
         \/ call.sm.style = "form"
         \/ call.sm.style \in {"spaceDelimited", "pipeDelimited"} /\ ~call.sm.explode
    [] call.decoder = "query" /\ call.op = "DecodeObject" ->
         \/ call.sm.style = "form"
         \/ call.sm.style = "deepObject" /\ call.sm.explode
    [] call.decoder = "header" -> call.sm.style = "simple"
    [] call.decoder = "cookie" -> call.sm.style = "form" /\ ~call.sm.explode

\* the input surface of the call contains the parameter name
NamePresent ==
  CASE call.decoder = "path" -> call.input # NilMap /\ call.param \in DOMAIN call.input.m
    [] call.decoder = "header" -> CanonicalHeaderKey(call.param) \in DOMAIN call.input
    [] OTHER -> call.param \in DOMAIN call.input

\* the object of the call is spread over the query keys, which then are
\* property names and not the parameter name
SpreadOverKeys ==
  /\ call.decoder = "query" /\ call.op = "DecodeObject"
  /\ call.sm.style = "deepObject" \/ call.sm.explode

\* C3: a Decode method called with a legal serialization method returns
\* found = TRUE exactly when the input surface contains the parameter name,
\* also when its value is empty and when decoding it fails.
C3_FoundIffPresent ==
  (DecodeReturned /\ LegalMethod /\ ~SpreadOverKeys) => (ret.found <=> NamePresent)

\* C4: a Decode method called with a (style, explode) pair that the
\* serialization table does not list for its location and shape returns
\* the invalid serialization method error and no value, whatever the input.
C4_IllegalRejected ==
  (call.op \in DecodeOps /\ HasReturned /\ ~LegalMethod) =>
    /\ ~ret.panic
    /\ ret.err = invalidSerializationMethodErr(call.sm)
    /\ ret.v \in {Null, NilSlice, NilMap}

(***************************************************************************)
(* C5: prefix of a path parameter of style label or matrix                 *)
(***************************************************************************)

\* the prefix the serialization table requires for the call
C5_Prefix ==
  CASE call.sm.style = "label" -> <<".">>
    [] call.sm.style = "matrix" /\ call.op = "DecodeObject" /\ call.sm.explode -> <<";">>
    [] call.sm.style = "matrix" -> <<";">> \o call.param \o <<"=">>

\* a returned call of the path decoder with style label or matrix on an
\* input that has a raw value for the parameter
C5_Case ==
  /\ call.op \in DecodeOps /\ call.decoder = "path" /\ HasReturned
  /\ call.sm.style \in {"label", "matrix"}
  /\ call.input # NilMap /\ call.param \in DOMAIN call.input.m

C5_Raw == call.input.m[call.param]

C5_IsInvalidFormat ==
  ~ret.panic /\ ret.err.kind = "InvalidFormat" /\ ret.v \in {Null, NilSlice, NilMap}

C5_IsNull == ~ret.panic /\ ret.err = NoErr /\ ret.v \in {Null, NilSlice, NilMap}

C5_MissingPrefix ==
  (C5_Case /\ C5_Raw # <<>> /\ ~HasPrefix(C5_Raw, C5_Prefix)) => C5_IsInvalidFormat

\* C5 as stated: a missing prefix gives InvalidFormat, and the prefix alone
\* gives null without an error, for each of the three methods.
C5_Original ==
  /\ C5_MissingPrefix
  /\ (C5_Case /\ C5_Raw = C5_Prefix) => C5_IsNull

\* C5: for a path parameter of style label or matrix, a non-empty raw value
\* without the required prefix gives a ParseError of kind InvalidFormat from
\* each of the three methods; the prefix alone gives null without an error
\* from DecodePrimitive and DecodeArray, and InvalidFormat from DecodeObject.
C5_PrefixEnforcement ==
  /\ C5_MissingPrefix
  /\ (C5_Case /\ C5_Raw = C5_Prefix) =>
       IF call.op = "DecodeObject" THEN C5_IsInvalidFormat ELSE C5_IsNull

\* DecodeObject of matrix with explode on the raw value ";", the prefix
\* alone, fails with InvalidFormat
C5_Witness ==
  /\ C5_Case /\ C5_IsInvalidFormat
  /\ call.op = "DecodeObject" /\ call.sm = SerializationMethod("matrix", TRUE)
  /\ C5_Raw = <<";">>

(***************************************************************************)
(* C9: path array decoding inverts the serialization table                 *)
(***************************************************************************)

\* the (prefix, delimiter) of an array cell of the table for the name
C9_Cell(name, sm) ==
  CASE sm.style = "simple" -> <<<<>>, <<",">>>>
    [] sm.style = "label" /\ ~sm.explode -> <<<<".">>, <<",">>>>
    [] sm.style = "label" /\ sm.explode -> <<<<".">>, <<".">>>>
    [] sm.style = "matrix" /\ ~sm.explode -> <<<<";">> \o name \o <<"=">>, <<",">>>>
    [] sm.style = "matrix" /\ sm.explode ->
         <<<<";">> \o name \o <<"=">>, <<";">> \o name \o <<"=">>>>

\* the non-empty lists of non-empty items
C9_Items == SeqsUpTo({"1", "k"}, 2) \ {<<>>}

\* a raw value of MaxBodyTokens tokens after the prefix holds at most
\* (MaxBodyTokens + 1) \div 2 items
C9_Lists == SeqsUpTo(C9_Items, (MaxBodyTokens + 1) \div 2) \ {<<>>}

\* the delimiter does not occur in the item
C9_Free(item, delim) == Index(item, delim) < 0

\* the item is a value of the items schema
C9_Parses(item, items) ==
  ~IsErr(parsePrimitive(item, items).err) /\ parsePrimitive(item, items).v # Null

\* C9: DecodeArray of the path decoder, on the raw value prefix ++
\* join(list, delim) of a legal cell and a non-empty list of non-empty items
\* that are free of the delimiter and are values of the items schema,
\* returns the items in order, each parsed by the items schema.
C9_PathArrayInverts ==
  (/\ call.op = "DecodeArray" /\ call.decoder = "path" /\ HasReturned
   /\ call.sm.style \in {"simple", "label", "matrix"}
   /\ call.input # NilMap /\ call.param \in DOMAIN call.input.m) =>
    \A list \in C9_Lists :
      LET cell == C9_Cell(call.param, call.sm)
      IN  (/\ call.input.m[call.param] = cell[1] \o Join(list, cell[2])
           /\ \A i \in 1..Len(list) :
                C9_Free(list[i], cell[2]) /\ C9_Parses(list[i], call.schema.items)) =>
            ret = Decoded(Arr([i \in 1..Len(list) |->
                                 parsePrimitive(list[i], call.schema.items).v]),
                          TRUE, NoErr)

\* ";k=1;k=1" of matrix with explode decodes to the integers 1, 1
C9_Witness ==
  /\ call.op = "DecodeArray" /\ call.decoder = "path" /\ HasReturned
  /\ call.sm = SerializationMethod("matrix", TRUE)
  /\ call.input = Props(call.param :> <<";", "k", "=", "1", ";", "k", "=", "1">>)
  /\ ret = Decoded(Arr(<<Int64(1), Int64(1)>>), TRUE, NoErr)

(***************************************************************************)
(* schema-directed dispatcher: decodeValue over a valueDecoder.  A Decode  *)
(* method of DecodeObject may return one of several results (map           *)
(* iteration), so decodeValue is the set of the results it may return.     *)
(***************************************************************************)

\* a valueDecoder: pathParamDecoder, urlValuesDecoder, headerParamDecoder or
\* cookieParamDecoder (in) over its input surface
ValueDecoder(in, input) == [in |-> in, input |-> input]

\* dec.DecodePrimitive
decPrimitive(dec, param, sm, schema) ==
  CASE dec.in = "path" -> pathDecodePrimitive(dec.input, param, sm, schema)
    [] dec.in = "query" -> urlDecodePrimitive(dec.input, param, sm, schema)
    [] dec.in = "header" -> headerDecodePrimitive(dec.input, param, sm, schema)
    [] dec.in = "cookie" -> cookieDecodePrimitive(dec.input, param, sm, schema)

\* dec.DecodeArray; its []interface{} result is converted to interface{} by
\* the closure of decodeValue, so a nil slice stays NilSlice and is not Null
decArray(dec, param, sm, schema) ==
  CASE dec.in = "path" -> pathDecodeArray(dec.input, param, sm, schema)
    [] dec.in = "query" -> urlDecodeArray(dec.input, param, sm, schema)
    [] dec.in = "header" -> headerDecodeArray(dec.input, param, sm, schema)
    [] dec.in = "cookie" -> cookieDecodeArray(dec.input, param, sm, schema)

\* dec.DecodeObject; a nil map stays NilMap in the same way
decObject(dec, param, sm, schema) ==
  CASE dec.in = "path" -> pathDecodeObject(dec.input, param, sm, schema)
    [] dec.in = "query" -> urlDecodeObject(dec.input, param, sm, schema)
    [] dec.in = "header" -> headerDecodeObject(dec.input, param, sm, schema)
    [] dec.in = "cookie" -> cookieDecodeObject(dec.input, param, sm, schema)

\* "if schema.Value.Type != nil": the switch over the type and the call
decodeTyped(dec, param, sm, schema) ==
  IF Is(schema, "array") THEN {decArray(dec, param, sm, schema)}
  ELSE IF Is(schema, "object") THEN decObject(dec, param, sm, schema)
  ELSE {decPrimitive(dec, param, sm, schema)}

\* the type switch over the decoder for a schema without a type: the
\* presence of the name, or DecodePrimitive for a query schema with a pattern
decodeUntyped(dec, param, sm, schema) ==
  CASE dec.in = "path" ->
         Decoded(Null, dec.input # NilMap /\ param \in DOMAIN dec.input.m, NoErr)
    [] dec.in = "query" ->
         IF schema.pattern # "" THEN urlDecodePrimitive(dec.input, param, sm, schema)
         ELSE Decoded(Null, param \in DOMAIN dec.input, NoErr)
    [] dec.in = "header" ->
         Decoded(Null, CanonicalHeaderKey(param) \in DOMAIN dec.input, NoErr)
    [] dec.in = "cookie" ->
         Decoded(Null, ~IsErr(Cookie(dec.input, param).err), NoErr)

\* the mutant of decodeNot: a ParseError of kind UnsupportedFormat
decodeNot_Unsupported(found) ==
  Decoded(Null, found,
          ParseError("UnsupportedFormat", Null, "not implemented: decoding 'not'", NoErr, <<>>))

\* "if schema.Value.Not != nil": errors.New, an error without a kind
decodeNot(found) == Decoded(Null, found, PlainError("not implemented: decoding 'not'", <<>>))

RECURSIVE decodeValue(_, _, _, _, _)
RECURSIVE decodeAllOf(_, _, _, _, _, _, _)
RECURSIVE decodeAnyOf(_, _, _, _, _, _, _)
RECURSIVE decodeOneOf(_, _, _, _, _, _, _, _, _)

\* the allOf loop of decodeValue from member i on
decodeAllOf(dec, param, sm, members, required, i, found) ==
  UNION {IF r.panic THEN {DecodePanic}
         ELSE IF r.v = Null \/ IsErr(r.err) \/ i = Len(members)
         THEN {Decoded(r.v, found \/ r.found, r.err)}
         ELSE decodeAllOf(dec, param, sm, members, required, i + 1, found \/ r.found) :
           r \in decodeValue(dec, param, sm, members[i], required)}

\* the anyOf loop of decodeValue from member i on
decodeAnyOf(dec, param, sm, members, required, i, found) ==
  IF i > Len(members)
  THEN {Decoded(Null, found,
                IF required THEN PlainError("decoding anyOf for parameter %q failed", param)
                ELSE NoErr)}
  ELSE UNION {IF r.panic THEN {DecodePanic}
              ELSE IF r.v # Null THEN {Decoded(r.v, found \/ r.found, NoErr)}
              ELSE decodeAnyOf(dec, param, sm, members, required, i + 1, found \/ r.found) :
                r \in decodeValue(dec, param, sm, members[i], required)}

\* the oneOf loop of decodeValue from member i on
decodeOneOf(dec, param, sm, members, required, i, found, value, isMatched) ==
  IF i > Len(members)
  THEN {IF isMatched >= 1 THEN Decoded(value, found, NoErr)
        ELSE Decoded(Null, found,
                     IF required THEN PlainError("decoding oneOf failed: %q is required", param)
                     ELSE NoErr)}
  ELSE UNION {IF r.panic THEN {DecodePanic}
              ELSE decodeOneOf(dec, param, sm, members, required, i + 1, found \/ r.found,
                               IF r.v # Null THEN r.v ELSE value,
                               IF r.v # Null THEN isMatched + 1 ELSE isMatched) :
                r \in decodeValue(dec, param, sm, members[i], required)}

decodeValue(dec, param, sm, schema, required) ==
  IF Len(schema.allOf) > 0 THEN decodeAllOf(dec, param, sm, schema.allOf, required, 1, FALSE)
  ELSE IF Len(schema.anyOf) > 0
  THEN decodeAnyOf(dec, param, sm, schema.anyOf, required, 1, FALSE)
  ELSE IF Len(schema.oneOf) > 0
  THEN decodeOneOf(dec, param, sm, schema.oneOf, required, 1, FALSE, Null, 0)
  ELSE IF schema.not # NilSchema THEN {decodeNot(FALSE)}
  ELSE IF schema.type # <<>> THEN decodeTyped(dec, param, sm, schema)
  ELSE {decodeUntyped(dec, param, sm, schema)}

(***************************************************************************)
(* specification of the dispatcher: one call of decodeValue on a decoder,  *)
(* or of urlValuesDecoder.parseValue on a raw value, for a schema built    *)
(* with allOf, anyOf, oneOf and not                                        *)
(***************************************************************************)

MaxMembers == 2

\* the raw values of the parameter
DispatchRaws ==
  {<<>>, <<"1">>, <<"k">>, <<"1", ",">>, <<"1", ",", "1">>, <<"k", ",", "1">>,
   <<"k", ",", "k">>}

\* the input surfaces of the four decoders
DispatchInputs(in) ==
  CASE in = "path" -> {NilMap, Props(<<>>)} \cup {Props(ParamName :> raw) : raw \in DispatchRaws}
    [] in = "query" ->
         {<<>>, ParamName :> << <<"1">>, <<"1">> >>}
           \cup {ParamName :> <<raw>> : raw \in DispatchRaws}
    [] in = "header" ->
         {<<>>} \cup {CanonicalHeaderKey(ParamName) :> <<raw>> : raw \in DispatchRaws}
    [] in = "cookie" -> {<<>>} \cup {ParamName :> raw : raw \in DispatchRaws}

DispatchMethods ==
  {SerializationMethod("simple", FALSE), SerializationMethod("form", FALSE),
   SerializationMethod("form", TRUE)}

\* the members of a composition
MemberSchemas ==
  {IntegerSchema, StringSchema, ArrayOf(IntegerSchema), ObjectOf(<<"k">> :> IntegerSchema),
   Not(StringSchema), Untyped}

MemberLists == SeqsUpTo(MemberSchemas, MaxMembers) \ {<<>>}

\* the schema with every construct after its first one set as well
Crowded(schema) ==
  [schema EXCEPT !.anyOf = IF schema.allOf # <<>> THEN <<StringSchema>> ELSE @,
                 !.oneOf = IF schema.allOf # <<>> \/ schema.anyOf # <<>>
                           THEN <<StringSchema>> ELSE @,
                 !.not = StringSchema,
                 !.type = <<"string">>]

DispatchSchemas ==
  MemberSchemas \cup {PatternSchema, Crowded(Not(StringSchema))}
    \cup {AllOf(ms) : ms \in MemberLists}
    \cup {AnyOf(ms) : ms \in MemberLists}
    \cup {OneOf(ms) : ms \in MemberLists}
    \cup {Crowded(AllOf(<<m>>)) : m \in MemberSchemas}
    \cup {Crowded(AnyOf(<<m>>)) : m \in MemberSchemas}
    \cup {Crowded(OneOf(<<m>>)) : m \in MemberSchemas}
    \cup {AllOf(<<AnyOf(<<IntegerSchema, StringSchema>>), StringSchema>>),
          AnyOf(<<AllOf(<<StringSchema, IntegerSchema>>), StringSchema>>),
          OneOf(<<OneOf(<<IntegerSchema, StringSchema>>), ArrayOf(StringSchema)>>)}

DecodeValue ==
  /\ call.op = "decodeValue" /\ ~HasReturned
  /\ ret' \in decodeValue(ValueDecoder(call.decoder, call.input), call.param, call.sm,
                          call.schema, call.required)
  /\ UNCHANGED <<bodyDecoders, lastReg, call>>

ParseValue ==
  /\ call.op = "parseValue" /\ ~HasReturned
  /\ ret' = parseValue(call.raw, call.schema)
  /\ UNCHANGED <<bodyDecoders, lastReg, call>>

InitDispatch ==
  /\ bodyDecoders = BuiltinDecoders
  /\ lastReg = BuiltinDecoders
  /\ \/ \E in \in {"path", "query", "header", "cookie"}, sm \in DispatchMethods,
           schema \in DispatchSchemas, required \in BOOLEAN :
          \E input \in DispatchInputs(in) :
            call = [op |-> "decodeValue", decoder |-> in, input |-> input,
                    param |-> ParamName, sm |-> sm, schema |-> schema,
                    required |-> required]
     \/ \E raw \in DispatchRaws, schema \in DispatchSchemas :
          call = [op |-> "parseValue", raw |-> raw, schema |-> schema]
  /\ ret = Pending

NextDispatch ==
  \/ DecodeValue
  \/ ParseValue

SpecDispatch == InitDispatch /\ [][NextDispatch]_vars

(***************************************************************************)
(* C17..C20: the dispatcher                                                *)
(***************************************************************************)

\* a call of decodeValue that has returned
DispatchReturned == call.op = "decodeValue" /\ HasReturned /\ ~ret.panic

\* the result of decoding the input of the call against a member alone
MemberResult(member) ==
  CHOOSE r \in decodeValue(ValueDecoder(call.decoder, call.input), call.param, call.sm,
                           member, call.required) : TRUE

\* a null value: the nil interface, a null array or a null object
IsNullValue(v) == v \in {Null, NilSlice, NilMap}

\* member i ends the allOf loop: it is the last one, or yields an error or null
C17_Stops(members, i) ==
  With(MemberResult(members[i]), LAMBDA r :
    i = Len(members) \/ IsNullValue(r.v) \/ IsErr(r.err))

\* the first member that ends the loop
C17_Last(members) ==
  CHOOSE i \in 1..Len(members) :
    C17_Stops(members, i) /\ \A j \in 1..(i - 1) : ~C17_Stops(members, j)

\* C17: with a non-empty allOf, decodeValue decodes the members in order up
\* to the first one that yields an error or a null value, returns the value
\* and the error of that member (of the last member when none does), and
\* found iff a decoded member reported found; anyOf, oneOf, not and the type
\* of the schema play no part.
C17_AllOfStops ==
  (DispatchReturned /\ Len(call.schema.allOf) > 0) =>
    With(C17_Last(call.schema.allOf), LAMBDA last :
      With(MemberResult(call.schema.allOf[last]), LAMBDA r :
        /\ ret.v = r.v
        /\ ret.err = r.err
        /\ ret.found = \E j \in 1..last : MemberResult(call.schema.allOf[j]).found))

\* a call of decodeValue on a schema with anyOf and without allOf
C18_Case == DispatchReturned /\ Len(call.schema.allOf) = 0 /\ Len(call.schema.anyOf) > 0

\* the members that yield a non-null value
NonNullMembers(members) ==
  {i \in 1..Len(members) : ~IsNullValue(MemberResult(members[i]).v)}

\* the least element of a non-empty set of numbers
Least(S) == CHOOSE i \in S : \A j \in S : i <= j

\* C18: without allOf and with a non-empty anyOf, decodeValue returns the
\* value of the first member that yields a non-null value, without an error;
\* when no member does it returns null, with an error of kind InvalidFormat
\* if the parameter is required and without an error if it is not.
C18_AnyOfFirst ==
  C18_Case =>
    With(NonNullMembers(call.schema.anyOf), LAMBDA nonNull :
      IF nonNull # {}
      THEN /\ ret.v = MemberResult(call.schema.anyOf[Least(nonNull)]).v
           /\ ret.err = NoErr
      ELSE /\ IsNullValue(ret.v)
           /\ IF call.required THEN ret.err.kind = "InvalidFormat" ELSE ret.err = NoErr)

\* a call on a schema with oneOf and without allOf and anyOf
C19_Case(op) ==
  /\ call.op = op /\ HasReturned
  /\ Len(call.schema.allOf) = 0 /\ Len(call.schema.anyOf) = 0 /\ Len(call.schema.oneOf) > 0

\* the members parseValue parses the raw value of the call against without error
C19_Parsing ==
  {i \in 1..Len(call.schema.oneOf) : ~IsErr(parseValue(call.raw, call.schema.oneOf[i]).err)}

\* C19: for oneOf, decodeValue tries every member and, when some members
\* yield a non-null value, returns the value of one of them without an error,
\* however many they are; parseValue returns a value only when exactly one
\* member parses without error, the value of that member, and an error
\* when none or more than one does.
C19_OneOfAsymmetry ==
  /\ (C19_Case("decodeValue") /\ ~ret.panic) =>
       With(NonNullMembers(call.schema.oneOf), LAMBDA matching :
         /\ ret.found = \E i \in 1..Len(call.schema.oneOf) :
                          MemberResult(call.schema.oneOf[i]).found
         /\ matching # {} =>
              /\ ret.err = NoErr
              /\ \E i \in matching : ret.v = MemberResult(call.schema.oneOf[i]).v)
  /\ C19_Case("parseValue") =>
       IF Cardinality(C19_Parsing) = 1
       THEN ret = R(parseValue(call.raw, call.schema.oneOf[Least(C19_Parsing)]).v, NoErr)
       ELSE ret.v = Null /\ IsErr(ret.err)

\* a call on a schema with not and without allOf, anyOf and oneOf
C20_Case ==
  /\ call.op \in {"decodeValue", "parseValue"} /\ HasReturned
  /\ call.schema.not # NilSchema
  /\ Len(call.schema.allOf) = 0 /\ Len(call.schema.anyOf) = 0 /\ Len(call.schema.oneOf) = 0

\* C20 as stated: the fixed error is of kind UnsupportedFormat.
C20_Original ==
  C20_Case => ret.v = Null /\ ret.err.kind = "UnsupportedFormat"

\* C20: decoding against a schema that sets not, with allOf, anyOf and oneOf
\* empty, returns for every input and every location no value and the fixed
\* error "not implemented: decoding 'not'"; the error is not a ParseError
\* and carries no kind, and decodeValue reports found = false.
C20_NotRejected ==
  C20_Case =>
    /\ ret.v = Null
    /\ ret.err = PlainError("not implemented: decoding 'not'", <<>>)
    /\ call.op = "decodeValue" => (~ret.panic /\ ~ret.found)

\* decodeValue on a query that holds the parameter, against a schema with not
C20_Witness ==
  /\ C20_Case /\ call.op = "decodeValue" /\ call.decoder = "query"
  /\ call.input = (ParamName :> << <<"1">> >>)
  /\ call.schema = Crowded(Not(StringSchema))
  /\ ret.err.kind = "plain" /\ ~ret.found

(***************************************************************************)
(* body decoders that read the stream of the caller                        *)
(***************************************************************************)

\* an io.Reader: the bytes it gives, then io.EOF (NoErr) or a read error
Stream(data, err) == [data |-> data, err |-> err]

\* the error of a Read on a stream the caller has closed
ErrClosed == PlainError("read", "file already closed")

\* io.ReadAll(body): the bytes read and the read error, nil at io.EOF
ReadAll(body) == [b |-> body.data, err |-> body.err]

\* the result (value, err) of a body decoder, or its panic
Body(v, err) == [panic |-> FALSE, v |-> v, err |-> err]

BodyPanic == [panic |-> TRUE, v |-> Null, err |-> NoErr]

plainBodyDecoder(body) ==
  With(ReadAll(body), LAMBDA read :
    IF IsErr(read.err)
    THEN Body(Null, ParseError("InvalidFormat", Null, <<>>, read.err, <<>>))
    ELSE Body(Str(read.b), NoErr))

FileBodyDecoder(body) ==
  With(ReadAll(body), LAMBDA read :
    IF IsErr(read.err) THEN Body(Null, read.err) ELSE Body(Str(read.b), NoErr))

\* what a library parser (encoding/json, yaml.v3, archive/zip, encoding/csv)
\* makes of the bytes of a document; documents that start with "k" are
\* malformed for it
Document(format, b) == [k |-> format, b |-> b]

ErrMalformed == PlainError("malformed", <<>>)

IsMalformed(b) == Len(b) > 0 /\ b[1] = "k"

\* dec.Decode(&value) of encoding/json and of yaml.v3 on a stream: a read
\* error met before the document is complete is the error of Decode
libraryDecode(format, body) ==
  IF IsErr(body.err) THEN R(Null, body.err)
  ELSE IF IsMalformed(body.data) THEN R(Null, ErrMalformed)
  ELSE R(Document(format, body.data), NoErr)

JSONBodyDecoder(body) ==
  With(libraryDecode("json", body), LAMBDA decoded :
    IF IsErr(decoded.err)
    THEN Body(Null, ParseError("InvalidFormat", Null, <<>>, decoded.err, <<>>))
    ELSE Body(decoded.v, NoErr))

yamlBodyDecoder(body) ==
  With(libraryDecode("yaml", body), LAMBDA decoded :
    IF IsErr(decoded.err)
    THEN Body(Null, ParseError("InvalidFormat", Null, <<>>, decoded.err, <<>>))
    ELSE Body(decoded.v, NoErr))

\* zipFileBodyDecoder: io.Copy, then zip.NewReader and the entries, whose
\* contents are those of the library
zipFileBodyDecoder(body) ==
  IF IsErr(body.err) THEN Body(Null, body.err)
  ELSE IF IsMalformed(body.data) THEN Body(Null, ErrMalformed)
  ELSE Body(Document("zip", body.data), NoErr)

\* csvBodyDecoder: r.Read() until io.EOF; a read error of the stream is the
\* error of r.Read()
csvBodyDecoder(body) ==
  With(libraryDecode("csv", body), LAMBDA records :
    IF IsErr(records.err) THEN Body(Null, records.err) ELSE Body(records.v, NoErr))

(***************************************************************************)
(* urlencodedBodyDecoder                                                   *)
(***************************************************************************)

\* the loop of url.ParseQuery over the "&"-separated pairs, from pair i on:
\* an empty pair and a pair with ";" give no value.  The strings of the
\* model have no "%" and no "+", so unescaping leaves them as they are.
RECURSIVE parseQueryLoop(_, _, _)
parseQueryLoop(pairs, i, m) ==
  IF i > Len(pairs) THEN m
  ELSE IF pairs[i] = <<>> \/ Index(pairs[i], <<";">>) >= 0
  THEN parseQueryLoop(pairs, i + 1, m)
  ELSE With(Index(pairs[i], <<"=">>), LAMBDA eq :
         With(IF eq < 0 THEN pairs[i] ELSE Take(pairs[i], eq), LAMBDA key :
           parseQueryLoop(pairs, i + 1,
             MapSet(m, key, Append(urlValues(m, key),
                                   IF eq < 0 THEN <<>> ELSE Drop(pairs[i], eq + 1))))))

\* url.ParseQuery(query): the values, and the error for a ";" in the query
ParseQuery(query) ==
  [v |-> parseQueryLoop(Split(query, <<"&">>), 1, <<>>),
   err |-> IF Index(query, <<";">>) >= 0
           THEN PlainError("invalid semicolon separator in query", <<>>)
           ELSE NoErr]

\* the property has a type the decoder does not support
unsupportedType(propSchema) ==
  \/ Is(propSchema, "object")
  \/ /\ Is(propSchema, "array")
     /\ \A t \in {"string", "integer", "number", "boolean"} : ~Is(propSchema.items, t)

\* the loop over schema.Value.Properties that validates the schema, visiting
\* the names in propOrder from the i-th on: the error it returns, or NoErr
RECURSIVE unsupportedProperty(_, _, _)
unsupportedProperty(schema, propOrder, i) ==
  IF i > Len(propOrder) THEN NoErr
  ELSE IF unsupportedType(schema.properties[propOrder[i]])
  THEN PlainError("unsupported schema of request body's property %q", propOrder[i])
  ELSE unsupportedProperty(schema, propOrder, i + 1)

\* the mutant of isEqual: any two values are equal
isEqual_Always(value1, value2) == TRUE

\* reflect.DeepEqual on decoded values
isEqual(value1, value2) == value1 = value2

\* decodeProperty; sm is enc.SerializationMethod() for the encoding that
\* encFn gives for the name
decodeProperty(dec, name, prop, sm) == decodeValue(dec, name, sm, prop, FALSE)

\* what decodeSchemaConstructs leaves: obj and the error, or a panic
Constructs(obj, err) == [panic |-> FALSE, obj |-> obj, err |-> err]

\* the loop of decodeSchemaConstructs over the properties of one schema,
\* visited in propOrder, from the i-th name on
RECURSIVE propertiesLoop(_, _, _, _, _, _)
propertiesLoop(dec, sm, schemaRef, propOrder, i, obj) ==
  IF i > Len(propOrder) THEN {Constructs(obj, NoErr)}
  ELSE UNION {IF r.panic THEN {[panic |-> TRUE, obj |-> obj, err |-> NoErr]}
              ELSE IF /\ ~IsErr(r.err)
                      /\ propOrder[i] \in DOMAIN obj
                      /\ ~isEqual(obj[propOrder[i]], r.v)
              THEN {Constructs(obj, PlainError("conflicting values for property %q",
                                               propOrder[i]))}
              ELSE propertiesLoop(dec, sm, schemaRef, propOrder, i + 1,
                                  IF IsErr(r.err) THEN obj
                                  ELSE MapSet(obj, propOrder[i], r.v)) :
                r \in decodeProperty(dec, propOrder[i],
                                     schemaRef.properties[propOrder[i]], sm)}

\* the loop of decodeSchemaConstructs over schemas, from the s-th on; each
\* range over a property map takes any order
RECURSIVE schemasLoop(_, _, _, _, _)
schemasLoop(dec, sm, schemas, s, obj) ==
  IF s > Len(schemas) THEN {Constructs(obj, NoErr)}
  ELSE UNION {IF r.panic \/ IsErr(r.err) THEN {r}
              ELSE schemasLoop(dec, sm, schemas, s + 1, r.obj) :
                r \in UNION {propertiesLoop(dec, sm, schemas[s], propOrder, 1, obj) :
                               propOrder \in Orders(DOMAIN schemas[s].properties)}}

decodeSchemaConstructs(dec, schemas, obj, sm) == schemasLoop(dec, sm, schemas, 1, obj)

\* the four calls of decodeSchemaConstructs by urlencodedBodyDecoder, on
\* allOf, anyOf, oneOf and the schema itself, from the s-th call on
RECURSIVE urlencodedConstructs(_, _, _, _, _)
urlencodedConstructs(dec, sm, stages, s, obj) ==
  IF s > Len(stages) THEN {Body(Obj(obj), NoErr)}
  ELSE UNION {IF r.panic THEN {BodyPanic}
              ELSE IF IsErr(r.err) THEN {Body(Null, r.err)}
              ELSE urlencodedConstructs(dec, sm, stages, s + 1, r.obj) :
                r \in decodeSchemaConstructs(dec, stages[s], obj, sm)}

\* urlencodedBodyDecoder after the validation of the schema
urlencodedForm(body, schema, sm) ==
  With(ReadAll(body), LAMBDA read :
    IF IsErr(read.err) THEN {Body(Null, read.err)}
    ELSE With(ParseQuery(read.b), LAMBDA values :
           IF IsErr(values.err) THEN {Body(Null, values.err)}
           ELSE urlencodedConstructs(ValueDecoder("query", values.v), sm,
                  <<schema.allOf, schema.anyOf, schema.oneOf, <<schema>> >>, 1, <<>>)))

\* urlencodedBodyDecoder: the results it may return
urlencodedBodyDecoder(body, schema, sm) ==
  IF ~Is(schema, "object")
  THEN {Body(Null, PlainError("unsupported schema of request body", <<>>))}
  ELSE With({unsupportedProperty(schema, propOrder, 1) :
               propOrder \in Orders(DOMAIN schema.properties)},
            LAMBDA unsupported :
         IF unsupported # {NoErr} THEN {Body(Null, err) : err \in unsupported}
         ELSE urlencodedForm(body, schema, sm))

(***************************************************************************)
(* specification of the body decoders: one call of a decoder on a stream,  *)
(* or one call of makeObject                                               *)
(***************************************************************************)

\* the "&"-separated pairs of a form body
FormPairs ==
  {<<"k", "=", "1">>, <<"k", "=", "k">>, <<"j", "=", "1">>, <<"k", "=", "1", ";">>}

FormBodies == {Join(pairs, <<"&">>) : pairs \in SeqsUpTo(FormPairs, MaxProps)}

\* streams that end with io.EOF, and streams the caller has closed
Streams ==
  {Stream(b, NoErr) : b \in FormBodies}
    \cup {Stream(b, ErrClosed) : b \in {<<>>, <<"k", "=", "1">>}}

\* the properties of a member of allOf, anyOf or oneOf
MemberProperties ==
  {<<"k">> :> IntegerSchema, <<"k">> :> StringSchema, <<"k">> :> ArrayOf(IntegerSchema),
   (<<"k">> :> StringSchema) @@ (<<"j">> :> StringSchema)}

\* the properties of the schema of the body
MainProperties ==
  {<<>>, <<"k">> :> IntegerSchema, (<<"k">> :> IntegerSchema) @@ (<<"j">> :> IntegerSchema),
   <<"k">> :> ArrayOf(IntegerSchema),
   (<<"k">> :> ObjectOf(<<>>)) @@ (<<"j">> :> ObjectOf(<<>>)),
   <<"k">> :> ArrayOf(ArrayOf(IntegerSchema))}

FormMembers == {ObjectOf(properties) : properties \in MemberProperties}

FormSchemas ==
  {StringSchema}
    \cup {[ObjectOf(main) EXCEPT !.allOf = members] :
            main \in MainProperties, members \in SeqsUpTo(FormMembers, MaxMembers)}
    \cup {[ObjectOf(main) EXCEPT !.anyOf = <<member>>] :
            main \in MainProperties, member \in FormMembers}
    \cup {[ObjectOf(main) EXCEPT !.oneOf = <<member>>] :
            main \in MainProperties, member \in FormMembers}

\* the serialization methods of the encodings
FormMethods == {SerializationMethod("form", TRUE), SerializationMethod("form", FALSE)}

StreamDecoders ==
  {"plainBodyDecoder", "FileBodyDecoder", "JSONBodyDecoder", "yamlBodyDecoder",
   "zipFileBodyDecoder", "csvBodyDecoder"}

IsBodyCall(decoder) == call.op = decoder /\ ~HasReturned

UrlencodedBodyDecoder ==
  /\ IsBodyCall("urlencodedBodyDecoder")
  /\ ret' \in urlencodedBodyDecoder(call.body, call.schema, call.sm)
  /\ UNCHANGED <<bodyDecoders, lastReg, call>>

PlainBodyDecoder ==
  /\ IsBodyCall("plainBodyDecoder")
  /\ ret' = plainBodyDecoder(call.body)
  /\ UNCHANGED <<bodyDecoders, lastReg, call>>

OctetStreamBodyDecoder ==
  /\ IsBodyCall("FileBodyDecoder")
  /\ ret' = FileBodyDecoder(call.body)
  /\ UNCHANGED <<bodyDecoders, lastReg, call>>

JsonBodyDecoder ==
  /\ IsBodyCall("JSONBodyDecoder")
  /\ ret' = JSONBodyDecoder(call.body)
  /\ UNCHANGED <<bodyDecoders, lastReg, call>>

YamlBodyDecoder ==
  /\ IsBodyCall("yamlBodyDecoder")
  /\ ret' = yamlBodyDecoder(call.body)
  /\ UNCHANGED <<bodyDecoders, lastReg, call>>

ZipFileBodyDecoder ==
  /\ IsBodyCall("zipFileBodyDecoder")
  /\ ret' = zipFileBodyDecoder(call.body)
  /\ UNCHANGED <<bodyDecoders, lastReg, call>>

CsvBodyDecoder ==
  /\ IsBodyCall("csvBodyDecoder")
  /\ ret' = csvBodyDecoder(call.body)
  /\ UNCHANGED <<bodyDecoders, lastReg, call>>

InitBodies ==
  \/ /\ bodyDecoders = BuiltinDecoders
     /\ lastReg = BuiltinDecoders
     /\ \/ \E body \in Streams, schema \in FormSchemas, sm \in FormMethods :
             call = [op |-> "urlencodedBodyDecoder", body |-> body, schema |-> schema,
                     sm |-> sm]
        \/ \E decoder \in StreamDecoders, body \in Streams :
             call = [op |-> decoder, body |-> body]
     /\ ret = Pending
  \/ InitObjects

NextBodies ==
  \/ UrlencodedBodyDecoder
  \/ PlainBodyDecoder
  \/ OctetStreamBodyDecoder
  \/ JsonBodyDecoder
  \/ YamlBodyDecoder
  \/ ZipFileBodyDecoder
  \/ CsvBodyDecoder
  \/ CallMakeObject

SpecBodies == InitBodies /\ [][NextBodies]_vars

(***************************************************************************)
(* C11, C13, C14, C16: the body decoders                                   *)
(***************************************************************************)

\* a call of urlencodedBodyDecoder that has returned after it has accepted
\* the schema, read the stream and parsed the form
FormDecoded ==
  /\ call.op = "urlencodedBodyDecoder" /\ HasReturned /\ ~ret.panic
  /\ Is(call.schema, "object")
  /\ \A name \in DOMAIN call.schema.properties : ~unsupportedType(call.schema.properties[name])
  /\ ~IsErr(call.body.err)
  /\ ~IsErr(ParseQuery(call.body.data).err)

\* the schemas whose properties are decoded, in the order of the visits
VisitedSchemas == call.schema.allOf \o call.schema.anyOf \o call.schema.oneOf \o <<call.schema>>

\* the result of decoding the name under its declaration by the s-th schema
DeclaredResult(s, name) ==
  CHOOSE r \in decodeValue(ValueDecoder("query", ParseQuery(call.body.data).v), name,
                           call.sm, VisitedSchemas[s].properties[name], FALSE) : TRUE

\* the visited schemas that declare the name and decode a value for it
Declaring(name) ==
  {s \in 1..Len(VisitedSchemas) :
     /\ name \in DOMAIN VisitedSchemas[s].properties
     /\ ~IsErr(DeclaredResult(s, name).err)}

DeclaredNames == UNION {DOMAIN VisitedSchemas[s].properties : s \in 1..Len(VisitedSchemas)}

\* the names that two declarations decode to values that are not equal
Conflicting ==
  {name \in DeclaredNames :
     \E s, t \in Declaring(name) : DeclaredResult(s, name).v # DeclaredResult(t, name).v}

\* C11: in urlencoded body decoding, a property that several visited schemas
\* declare is one entry of the resulting object, holding the value all its
\* declarations decode; if two declarations of a name decode values that are
\* not deeply equal, the decoder returns no object and the error
\* "conflicting values for property <name>" for such a name.
C11_ConflictingValues ==
  FormDecoded =>
    IF Conflicting # {}
    THEN /\ ret.v = Null
         /\ \E name \in Conflicting :
              ret.err = PlainError("conflicting values for property %q", name)
    ELSE /\ ret.err = NoErr
         /\ ret.v.k = "object"
         /\ DOMAIN ret.v.o = {name \in DeclaredNames : Declaring(name) # {}}
         /\ \A name \in DOMAIN ret.v.o :
              \A s \in Declaring(name) : ret.v.o[name] = DeclaredResult(s, name).v

\* the body k=1 with k declared as an integer and as a string by two members
\* of allOf: 1 and "1" conflict
C11_Witness ==
  /\ FormDecoded
  /\ call.body = Stream(<<"k", "=", "1">>, NoErr)
  /\ call.schema = [ObjectOf(<<>>) EXCEPT
                      !.allOf = <<ObjectOf(<<"k">> :> IntegerSchema),
                                  ObjectOf(<<"k">> :> StringSchema)>>]
  /\ ret = Body(Null, PlainError("conflicting values for property %q", <<"k">>))

(***************************************************************************)
(* content-based parameters: decodeContentParameter                        *)
(***************************************************************************)

\* a non-nil openapi3.Content: the map from the media types to their schemas
Content(m) == [k |-> "content", m |-> m]

\* a parameter defined via content: content is NilMap or a Content
ContentParameter(name, in, required, content) ==
  [name |-> name, in |-> in, required |-> required, content |-> content]

\* the four results of decodeContentParameter, with the calls of the content
\* decoder it made (each the decoder called and the values passed)
ContentDecoded(value, schema, found, err, invoked) ==
  [value |-> value, schema |-> schema, found |-> found, err |-> err, invoked |-> invoked]

\* json.Unmarshal([]byte(encoded), &decoded) of the library
jsonUnmarshal(encoded) ==
  IF encoded = <<>> \/ IsMalformed(encoded) THEN R(Null, ErrMalformed)
  ELSE R(Document("json", encoded), NoErr)

\* the closure unmarshal of defaultContentParameterDecoder
unmarshal(encoded, paramSchema) ==
  With(jsonUnmarshal(encoded), LAMBDA decoded :
    IF IsErr(decoded.err) /\ paramSchema # NilSchema /\ ~Is(paramSchema, "object")
    THEN R(Str(encoded), NoErr)
    ELSE decoded)

\* the loop of defaultContentParameterDecoder over several values
RECURSIVE unmarshalLoop(_, _, _, _, _)
unmarshalLoop(param, values, outSchema, i, outArray) ==
  IF i > Len(values) THEN ContentDecoded(Arr(outArray), outSchema, TRUE, NoErr, <<>>)
  ELSE With(unmarshal(values[i], outSchema.items), LAMBDA item :
         IF IsErr(item.err)
         THEN ContentDecoded(Null, outSchema, TRUE,
                             PlainError("error unmarshaling parameter %q", param.name), <<>>)
         ELSE unmarshalLoop(param, values, outSchema, i + 1, Append(outArray, item.v)))

\* defaultContentParameterDecoder(param, values): (outValue, outSchema, err)
defaultContentParameterDecoder(param, values) ==
  IF Len(values) > 1 /\ param.in # "query"
  THEN ContentDecoded(Null, NilSchema, TRUE,
                      PlainError("%s parameter %q cannot have multiple values",
                                 <<param.in, param.name>>), <<>>)
  ELSE IF param.content = NilMap
  THEN ContentDecoded(Null, NilSchema, TRUE,
                      PlainError("parameter %q expected to have content", param.name), <<>>)
  ELSE IF Cardinality(DOMAIN param.content.m) # 1
  THEN ContentDecoded(Null, NilSchema, TRUE,
                      PlainError("multiple content types for parameter %q", param.name), <<>>)
  ELSE IF <<"application/json">> \notin DOMAIN param.content.m
  THEN ContentDecoded(Null, NilSchema, TRUE,
                      PlainError("parameter %q has no content schema", param.name), <<>>)
  ELSE With(param.content.m[<<"application/json">>], LAMBDA outSchema :
         IF Len(values) = 1
         THEN With(unmarshal(values[1], outSchema), LAMBDA out :
                IF IsErr(out.err)
                THEN ContentDecoded(Null, outSchema, TRUE,
                                    PlainError("error unmarshaling parameter %q", param.name),
                                    <<>>)
                ELSE ContentDecoded(out.v, outSchema, TRUE, NoErr, <<>>))
         ELSE unmarshalLoop(param, values, outSchema, 1, <<>>))

\* a decoder set as input.ParamDecoder: it succeeds, or it fails
customContentParameterDecoder(decoder, param, values) ==
  IF decoder = "failing"
  THEN ContentDecoded(Null, NilSchema, TRUE, PlainError("custom decoder", values), <<>>)
  ELSE ContentDecoded(Document("custom", values), StringSchema, TRUE, NoErr, <<>>)

\* the switch over param.In: paramValues, found and err after it; returned
\* says that the switch has returned from the function
contentParamValues(param, input) ==
  CASE param.in = "path" ->
         IF input.pathParams # NilMap /\ param.name \in DOMAIN input.pathParams.m
         THEN [values |-> <<input.pathParams.m[param.name]>>, found |-> TRUE,
               err |-> NoErr, returned |-> FALSE]
         ELSE [values |-> <<>>, found |-> FALSE, err |-> NoErr, returned |-> FALSE]
    [] param.in = "query" ->
         [values |-> urlValues(input.query, param.name),
          found |-> param.name \in DOMAIN input.query, err |-> NoErr, returned |-> FALSE]
    [] param.in = "header" ->
         [values |-> urlValues(input.header, CanonicalHeaderKey(param.name)),
          found |-> CanonicalHeaderKey(param.name) \in DOMAIN input.header,
          err |-> NoErr, returned |-> FALSE]
    [] param.in = "cookie" ->
         With(Cookie(input.cookies, param.name), LAMBDA cookie :
           IF IsErr(cookie.err)
           THEN [values |-> <<>>, found |-> FALSE, err |-> cookie.err, returned |-> FALSE]
           ELSE [values |-> <<cookie.value>>, found |-> TRUE, err |-> NoErr,
                 returned |-> FALSE])
    [] OTHER ->
         [values |-> <<>>, found |-> FALSE,
          err |-> PlainError("unsupported parameter.in: %q", param.in), returned |-> TRUE]

\* decodeContentParameter(param, input).  err is a named result: the value
\* the switch leaves in it is returned unless it is assigned again.
decodeContentParameter(param, input) ==
  With(contentParamValues(param, input), LAMBDA looked :
    IF looked.returned THEN ContentDecoded(Null, NilSchema, FALSE, looked.err, <<>>)
    ELSE IF ~looked.found
    THEN ContentDecoded(Null, NilSchema, FALSE,
                        IF param.required
                        THEN PlainError("parameter %q is required, but missing", param.name)
                        ELSE looked.err,
                        <<>>)
    ELSE With(IF input.paramDecoder = "nil"
              THEN defaultContentParameterDecoder(param, looked.values)
              ELSE customContentParameterDecoder(input.paramDecoder, param, looked.values),
              LAMBDA decoded :
           ContentDecoded(decoded.value, decoded.schema, TRUE, decoded.err,
                          <<[decoder |-> input.paramDecoder, values |-> looked.values]>>)))

(***************************************************************************)
(* specification of the content-based parameters: one call of              *)
(* decodeContentParameter on a request                                     *)
(***************************************************************************)

Locations == {"path", "query", "header", "cookie"}

\* the content maps of a parameter
Contents ==
  {NilMap, Content(<<"text/plain">> :> StringSchema),
   Content((<<"application/json">> :> StringSchema) @@ (<<"text/plain">> :> StringSchema))}
    \cup {Content(<<"application/json">> :> schema) :
            schema \in {StringSchema, ObjectOf(<<>>), ArrayOf(StringSchema),
                        ArrayOf(ObjectOf(<<>>))}}

\* a request with the input surface at the location and nothing elsewhere
Request(in, surface, paramDecoder) ==
  [pathParams |-> IF in = "path" THEN surface ELSE NilMap,
   query |-> IF in = "query" THEN surface ELSE <<>>,
   header |-> IF in = "header" THEN surface ELSE <<>>,
   cookies |-> IF in = "cookie" THEN surface ELSE <<>>,
   paramDecoder |-> paramDecoder]

\* the header of a request: DispatchInputs, or the name in lower case
ContentInputs(in) ==
  IF in = "header" THEN DispatchInputs(in) \cup {ParamName :> << <<"1">> >>}
  ELSE DispatchInputs(in)

DecodeContentParameter ==
  /\ call.op = "decodeContentParameter" /\ ~HasReturned
  /\ ret' = decodeContentParameter(call.param, call.input)
  /\ UNCHANGED <<bodyDecoders, lastReg, call>>

InitContent ==
  /\ bodyDecoders = BuiltinDecoders
  /\ lastReg = BuiltinDecoders
  /\ \E in \in Locations, at \in Locations \cup {"body"}, required \in BOOLEAN,
        content \in Contents, paramDecoder \in {"nil", "custom", "failing"} :
       \E surface \in ContentInputs(in) :
         call = [op |-> "decodeContentParameter",
                 param |-> ContentParameter(ParamName, at, required, content),
                 input |-> Request(in, surface, paramDecoder)]
  /\ ret = Pending

NextContent == DecodeContentParameter

SpecContent == InitContent /\ [][NextContent]_vars

(***************************************************************************)
(* C12: content-based parameters                                           *)
(***************************************************************************)

\* a returned call for a parameter in one of the four locations
C12_Case ==
  call.op = "decodeContentParameter" /\ HasReturned /\ call.param.in \in Locations

\* the values of the name in the request at the location of the parameter;
\* a header is looked up under its canonical name, and a cookie has the
\* value of the first cookie of the name
C12_Surface ==
  CASE call.param.in = "path" ->
         IF call.input.pathParams = NilMap THEN <<>>
         ELSE [n \in DOMAIN call.input.pathParams.m |-> <<call.input.pathParams.m[n]>>]
    [] call.param.in = "query" -> call.input.query
    [] call.param.in = "header" ->
         [n \in {ParamName} \cap {x \in {ParamName} :
                   CanonicalHeaderKey(x) \in DOMAIN call.input.header} |->
            call.input.header[CanonicalHeaderKey(n)]]
    [] call.param.in = "cookie" ->
         [n \in DOMAIN call.input.cookies |-> <<call.input.cookies[n]>>]

\* C12: for a content-based parameter in any of the four locations, when the
\* name is absent from the request decodeContentParameter returns
\* found = false, calls no content decoder, and returns the error "parameter
\* <name> is required, but missing" if the parameter is required and no
\* error if it is not; when the name is present it returns found = true and
\* calls the custom decoder, or the default one when there is none, exactly
\* once, with all the values found.
C12_ContentParameter ==
  C12_Case =>
    IF call.param.name \notin DOMAIN C12_Surface
    THEN /\ ~ret.found
         /\ ret.invoked = <<>>
         /\ ret.err = IF call.param.required
                      THEN PlainError("parameter %q is required, but missing", call.param.name)
                      ELSE NoErr
    ELSE /\ ret.found
         /\ ret.invoked = <<[decoder |-> call.input.paramDecoder,
                             values |-> C12_Surface[call.param.name]]>>

\* C13: decoding is deterministic: for the same schema and the same input,
\* the object assembler and the body decoders return the same value or the
\* same error whatever order a range over the property map of the schema or
\* over the input property map takes.
C13_Deterministic ==
  /\ (call.op = "makeObject" /\ HasReturned) =>
       \A propOrder \in Orders(DOMAIN call.schema.properties),
          keyOrder \in Orders(DOMAIN call.props) :
         makeObject(call.props, call.schema, propOrder, keyOrder) = ret
  /\ (call.op = "urlencodedBodyDecoder" /\ HasReturned) =>
       urlencodedBodyDecoder(call.body, call.schema, call.sm) = {ret}

\* C14: in urlencoded body decoding without anyOf and oneOf, when the value
\* of a declared property of the main schema fails to decode, the decoder
\* returns an error and no object.
C14_ErrorsSurface ==
  (/\ FormDecoded
   /\ call.schema.anyOf = <<>> /\ call.schema.oneOf = <<>>
   /\ \E name \in DOMAIN call.schema.properties :
        IsErr(DeclaredResult(Len(VisitedSchemas), name).err))
    => (IsErr(ret.err) /\ ret.v = Null)

\* a stream decoder, or urlencodedBodyDecoder with a schema it accepts, has
\* returned from a stream whose reads fail
C16_Case ==
  /\ call.op \in StreamDecoders \cup {"urlencodedBodyDecoder"} /\ HasReturned
  /\ IsErr(call.body.err)
  /\ call.op = "urlencodedBodyDecoder" =>
       /\ Is(call.schema, "object")
       /\ \A name \in DOMAIN call.schema.properties :
            ~unsupportedType(call.schema.properties[name])

\* C16: each built-in decoder that reads the stream of the caller (plain,
\* octet-stream, urlencoded, zip, csv, JSON, YAML) returns, for a read error
\* of the stream, no value and a ParseError of kind InvalidFormat.
C16_ReadErrors ==
  C16_Case => (ret.v = Null /\ ret.err.kind = "InvalidFormat")

(***************************************************************************)
(* rendering of a ParseError                                               *)
(***************************************************************************)

\* err.(*ParseError) succeeds
IsParseError(err) == IsErr(err) /\ err.isParseError

\* ParseError.Path: the path of the cause first, then e.path
RECURSIVE Path(_)
Path(e) ==
  (IF IsParseError(e.cause) THEN Path(e.cause) ELSE <<>>) \o e.path

DecimalDigits == <<"0", "1", "2", "3", "4", "5", "6", "7", "8", "9">>

\* strconv.Itoa for n >= 0
RECURSIVE Itoa(_)
Itoa(n) ==
  IF n < 10 THEN <<DecimalDigits[n + 1]>>
  ELSE Itoa(n \div 10) \o <<DecimalDigits[(n % 10) + 1]>>

\* fmt.Sprintf("%v", v) of a path segment: an int index or a string key
Sprint(v) == IF v.k = "int" THEN Itoa(v.n) ELSE v.s

\* ParseError.innerError: the parts of msg, joined by ": " in the code
RECURSIVE innerError(_)
innerError(e) ==
  (IF e.value # Null THEN <<[value |-> e.value]>> ELSE <<>>)
    \o (IF e.reason # <<>> THEN <<[reason |-> e.reason]>> ELSE <<>>)
    \o (IF ~IsErr(e.cause) THEN <<>>
        ELSE IF e.cause.isParseError THEN <<[inner |-> innerError(e.cause)]>>
        ELSE <<[cause |-> e.cause]>>)

\* ParseError.Error: the parts of msg, joined by ": " in the code; the first
\* is "path p0.p1..." when Path() is not empty
Error(e) ==
  With(Path(e), LAMBDA p :
    (IF Len(p) > 0
     THEN <<[path |-> Join([i \in DOMAIN p |-> Sprint(p[i])], <<".">>)]>>
     ELSE <<>>)
      \o <<[inner |-> innerError(e)]>>)

(***************************************************************************)
(* specification of the errors: Path or Error is called on a chain of      *)
(* ParseErrors, built by the wrappers of the code or returned by           *)
(* makeObject                                                              *)
(***************************************************************************)

MaxDepth == 3

ErrorKeys == {<<"a">>, <<"b">>}

\* the errors of parsePrimitive: a ParseError without path
LeafErrors ==
  {InvalidPrimitive(<<"t">>, "integer", NumError("ParseInt", <<"t">>)),
   ParseError("Other", Str(<<"t">>), <<"schema has non primitive type", "object">>, NoErr, <<>>)}

\* one wrapping: by parseArray for item i, or by makeObject for property key
Wrappers ==
  {[by |-> "parseArray", i |-> i, key |-> <<>>] : i \in 0..1}
    \cup {[by |-> "makeObject", i |-> 0, key |-> key] : key \in ErrorKeys}

\* err as it bubbles up through wrappers[n], ..., wrappers[1]
RECURSIVE Chain(_, _, _)
Chain(wrappers, n, err) ==
  IF n = 0 THEN err
  ELSE Chain(wrappers, n - 1,
             IF wrappers[n].by = "parseArray" THEN ItemError(wrappers[n].i, err)
             ELSE handlePropParseError(<<wrappers[n].key>>, err))

ErrorMethods == {"Path", "Error"}

CallPath ==
  /\ call.op = "Path" /\ ~HasReturned
  /\ ret' = [path |-> Path(call.e)]
  /\ UNCHANGED <<bodyDecoders, lastReg, call>>

CallError ==
  /\ call.op = "Error" /\ ~HasReturned
  /\ ret' = [msg |-> Error(call.e)]
  /\ UNCHANGED <<bodyDecoders, lastReg, call>>

\* the caller of makeObject calls Path or Error on the error it got
MakeObjectFailed ==
  /\ call.op = "makeObject" /\ HasReturned
  /\ ~ret.panic /\ IsParseError(ret.err)
  /\ \E op \in ErrorMethods : call' = [op |-> op, e |-> ret.err]
  /\ ret' = Pending
  /\ UNCHANGED <<bodyDecoders, lastReg>>

InitErrors ==
  \/ InitObjects
  \/ /\ bodyDecoders = BuiltinDecoders
     /\ lastReg = BuiltinDecoders
     /\ \E op \in ErrorMethods, leaf \in LeafErrors, wrappers \in SeqsUpTo(Wrappers, MaxDepth) :
          call = [op |-> op, e |-> Chain(wrappers, Len(wrappers), leaf)]
     /\ ret = Pending

NextErrors ==
  \/ CallMakeObject
  \/ MakeObjectFailed
  \/ CallPath
  \/ CallError

SpecErrors == InitErrors /\ [][NextErrors]_vars

\* the segments from the root value to the failing leaf: those of the outer
\* error, then those of its cause chain
RECURSIVE RootToLeaf(_)
RootToLeaf(e) ==
  e.path \o (IF IsParseError(e.cause) THEN RootToLeaf(e.cause) ELSE <<>>)

Rendered(path) == [i \in DOMAIN path |-> Sprint(path[i])]

\* an error with segments at two levels of its chain, at least
C15_Case ==
  /\ call.op \in ErrorMethods /\ HasReturned
  /\ call.e.path # <<>> /\ IsParseError(call.e.cause) /\ Path(call.e.cause) # <<>>

\* C15: for every chain of nested ParseErrors, Path() and the "path ..." part
\* of Error() list the segments from the root value to the failing leaf: the
\* segments of an outer error come before those of the errors in its cause
\* chain.
C15_RootToLeaf ==
  /\ (call.op = "Path" /\ HasReturned) =>
       Rendered(ret.path) = Rendered(RootToLeaf(call.e))
  /\ (call.op = "Error" /\ HasReturned /\ RootToLeaf(call.e) # <<>>) =>
       ret.msg[1] = [path |-> Join(Rendered(RootToLeaf(call.e)), <<".">>)]

(***************************************************************************)
(* C22, C24: array properties and deepSet of the object assembler          *)
(***************************************************************************)

\* the elements of a list value: a nil slice has none
Elements(v) == IF v = NilSlice THEN <<>> ELSE v.a

\* the element str converted to the item type
ConvertedElement(items, str) ==
  IF Permits(items, "boolean") THEN convertElement("boolean", str).v
  ELSE IF Permits(items, "integer") THEN convertElement("integer", str).v
  ELSE IF Permits(items, "number") THEN convertElement("number", str).v
  ELSE str

\* the non-empty elements of raw split by US, converted to the item type
NonEmptyConverted(raw, items) ==
  With(SelectSeq(Split(raw, <<US>>), LAMBDA str : str # <<>>), LAMBDA strs :
    [i \in DOMAIN strs |-> ConvertedElement(items, strs[i])])

ArrayProperties(schema) ==
  {name \in DOMAIN schema.properties : Is(schema.properties[name], "array")}

\* C22: for every array-typed property of a successful makeObject call, the
\* value of the property is the list of the non-empty elements of the input
\* split by 0x1F, in order, converted to the item type; no empty element is
\* in the list, also when the property is missing from the input.
C22_EmptyDropped ==
  MakeObjectSucceeded =>
    \A name \in ArrayProperties(call.schema) :
      Elements(ret.v.o[name]) =
        NonEmptyConverted(PropsGet(call.props, name), call.schema.properties[name].items)

\* C24: makeObject never panics, whatever the flat property map, the schema
\* and the order in which the keys are visited: no deepSet call meets an
\* intermediate key that holds a value that is no map.
C24_NoPanic == (call.op = "makeObject" /\ HasReturned) => ~ret.panic

(***************************************************************************)
(* C23: the query keys a deepObject parameter reads                        *)
(***************************************************************************)

\* the text of a query key before its first "[": the whole key if none
BaseName(key) ==
  With(Index(key, <<"[">>), LAMBDA open : IF open < 0 THEN key ELSE Take(key, open))

\* the query keys of the shape param[k1][k2]...
OwnKeys(values, param) ==
  {key \in DOMAIN values : BaseName(key) = param /\ Len(bracketMatches(key)) > 0}

DeepObjectDecoded ==
  /\ call.decoder = "query" /\ call.op = "DecodeObject" /\ HasReturned
  /\ call.sm.style = "deepObject"

\* C23: deepObject decoding of the query parameter N uses only the query keys
\* of the shape N[k1][k2]...: the call returns what it returns on the query
\* without the other keys, so a key M[k]... with another base name gives N no
\* property and does not make N found.
C23_OwnKeysOnly ==
  DeepObjectDecoded =>
    ret \in urlDecodeObject([key \in OwnKeys(call.input, call.param) |-> call.input[key]],
                            call.param, call.sm, call.schema)

(***************************************************************************)
(* multipart/form-data body decoder                                        *)
(***************************************************************************)

\* a part of the form: its form name, its Content-Type header and its body
Part(name, contentType, body) == [name |-> name, contentType |-> contentType, body |-> body]

\* what multipart.Reader makes of the body: the parts NextPart returns, then
\* io.EOF (err = NoErr) or the error of a malformed body
Form(parts, err) == [parts |-> parts, err |-> err]

\* the error of mime.ParseMediaType on the Content-Type of the body
ErrMediaType == PlainError("mime", "no media type")

\* the result of multipartBodyDecoder; calls is the list of the decodeBody
\* calls it made, each with the name of the part and the schema passed
MultipartBody(v, err, calls) == [panic |-> FALSE, v |-> v, err |-> err, calls |-> calls]

PartUndefined(name) ==
  ParseError("Other", Null, <<>>, PlainError("part %s: undefined", name), <<>>)

\* a schema chosen for a part, or the reason there is none
Chosen(schema) == [outcome |-> "schema", schema |-> schema]

NotChosen(outcome) == [outcome |-> outcome, schema |-> NilSchema]

\* the first member of allOf, from the i-th on, that declares name
RECURSIVE allOfProperty(_, _, _)
allOfProperty(members, name, i) ==
  IF i > Len(members) THEN NotChosen("undefined")
  ELSE IF name \in DOMAIN members[i].properties THEN Chosen(members[i].properties[name])
  ELSE allOfProperty(members, name, i + 1)

\* the property of name when schema has no allOf: the declared one, or what
\* additionalProperties gives
declaredProperty(schema, name) ==
  IF name \in DOMAIN schema.properties THEN Chosen(schema.properties[name])
  ELSE IF schema.additionalProperties.has = "true" THEN NotChosen("skip")
  ELSE IF schema.additionalProperties.has = "false" THEN NotChosen("undefined")
  ELSE IF schema.additionalProperties.schema = NilSchema THEN NotChosen("undefined")
  ELSE IF name \in DOMAIN schema.additionalProperties.schema.properties
  THEN Chosen(schema.additionalProperties.schema.properties[name])
  ELSE NotChosen("undefined")

\* "if valueSchema.Value.Type.Is("array") { valueSchema = valueSchema.Value.Items }"
itemsOfArray(chosen) ==
  IF chosen.outcome = "schema" /\ Is(chosen.schema, "array")
  THEN Chosen(chosen.schema.items) ELSE chosen

\* valueSchema of the part named name
valueSchemaOf(schema, name) ==
  IF Len(schema.allOf) > 0 THEN allOfProperty(schema.allOf, name, 1)
  ELSE itemsOfArray(declaredProperty(schema, name))

\* the registered decoder called on a body
invokeBodyDecoder(decoder, body) ==
  CASE decoder = "plainBodyDecoder" -> plainBodyDecoder(body)
    [] decoder = "FileBodyDecoder" -> FileBodyDecoder(body)
    [] decoder = "JSONBodyDecoder" -> JSONBodyDecoder(body)
    [] decoder = "yamlBodyDecoder" -> yamlBodyDecoder(body)

\* decodeBody(part, part.Header, valueSchema, subEncFn) on a *multipart.Part
decodePartBody(registry, part) ==
  With(parseMediaType(IF part.contentType = EmptyCT THEN <<"text/plain">>
                      ELSE part.contentType),
       LAMBDA mediaType :
    IF mediaType \notin DOMAIN registry
    THEN Body(Null, ParseError("UnsupportedFormat", Null,
                               <<"unsupported content type", mediaType>>, NoErr, <<>>))
    ELSE invokeBodyDecoder(registry[mediaType], part.body))

\* the error of the part named name whose decodeBody call failed with err
partError(name, err) ==
  IF err.isParseError THEN ParseError("Other", Null, <<>>, err, <<Str(name)>>)
  ELSE PlainError("part %s: %w", <<name, err>>)

\* values[name] = append(values[name], value)
appendValue(values, name, value) ==
  MapSet(values, name, IF name \in DOMAIN values THEN Append(values[name], value)
                       ELSE <<value>>)

\* the loop over the parts, from the i-th on: the values by name, or the
\* error that ends the loop
RECURSIVE partsLoop(_, _, _, _, _, _)
partsLoop(registry, schema, form, i, values, calls) ==
  IF i > Len(form.parts)
  THEN (IF IsErr(form.err) THEN MultipartBody(Null, form.err, calls)
        ELSE MultipartBody(values, NoErr, calls))
  ELSE
    With(form.parts[i], LAMBDA part :
      With(valueSchemaOf(schema, part.name), LAMBDA chosen :
        IF chosen.outcome = "skip"
        THEN partsLoop(registry, schema, form, i + 1, values, calls)
        ELSE IF chosen.outcome = "undefined"
        THEN MultipartBody(Null, PartUndefined(part.name), calls)
        ELSE
          With(decodePartBody(registry, part), LAMBDA decoded :
            With(Append(calls, [name |-> part.name, schema |-> chosen.schema]),
                 LAMBDA made :
              IF IsErr(decoded.err)
              THEN MultipartBody(Null, partError(part.name, decoded.err), made)
              ELSE partsLoop(registry, schema, form, i + 1,
                             appendValue(values, part.name, decoded.v), made)))))

\* the properties of the members of allOf from the i-th on, merged into all:
\* a later declaration of a name replaces an earlier one
RECURSIVE allOfProperties(_, _, _)
allOfProperties(members, i, all) ==
  IF i > Len(members) THEN all
  ELSE allOfProperties(members, i + 1,
         (IF members[i].additionalProperties.schema # NilSchema
          THEN members[i].additionalProperties.schema.properties ELSE <<>>)
           @@ members[i].properties @@ all)

allTheProperties(schema) ==
  IF Len(schema.allOf) > 0 THEN allOfProperties(schema.allOf, 1, <<>>)
  ELSE (IF schema.additionalProperties.schema # NilSchema
        THEN schema.additionalProperties.schema.properties ELSE <<>>)
         @@ schema.properties

\* the object made from the form values
formObject(values, properties) ==
  Obj([name \in {n \in DOMAIN properties : n \in DOMAIN values} |->
         IF Is(properties[name], "array") THEN Arr(values[name]) ELSE values[name][1]])

\* multipartBodyDecoder(body, header, schema, encFn): mediaErr is the error
\* of mime.ParseMediaType on the header, form what the reader makes of body
multipartBodyDecoder(registry, mediaErr, form, schema) ==
  IF ~Is(schema, "object")
  THEN MultipartBody(Null, PlainError("unsupported schema of request body", <<>>), <<>>)
  ELSE IF IsErr(mediaErr) THEN MultipartBody(Null, mediaErr, <<>>)
  ELSE With(partsLoop(registry, schema, form, 1, <<>>, <<>>), LAMBDA looped :
         IF IsErr(looped.err) THEN looped
         ELSE MultipartBody(formObject(looped.v, allTheProperties(schema)), NoErr,
                            looped.calls))

(***************************************************************************)
(* specification of the multipart decoder: one call on a form of up to     *)
(* MaxParts parts                                                          *)
(***************************************************************************)

MaxParts == 3

PartNames == {<<"k">>, <<"j">>}

PartContentTypes == {EmptyCT, <<"application/json">>, <<"application/x-custom">>}

PartBodies == {Stream(<<"1">>, NoErr), Stream(<<"k">>, NoErr)}

Parts ==
  {Part(name, contentType, body) :
     name \in PartNames, contentType \in PartContentTypes, body \in PartBodies}

\* the error of NextPart on a malformed body
ErrNextPart == PlainError("multipart", "NextPart: EOF")

WithAdditional(schema, has, fallback) ==
  [schema EXCEPT !.additionalProperties = [has |-> has, schema |-> fallback]]

MultipartSchemas ==
  {WithAdditional(ObjectOf(<<"k">> :> StringSchema), has, NilSchema) :
     has \in {"nil", "true", "false"}}
  \cup {WithAdditional(ObjectOf(<<"k">> :> ArrayOf(StringSchema)), "nil",
                       ObjectOf(<<"j">> :> StringSchema)),
        WithAdditional(ObjectOf(<<"k">> :> StringSchema), "nil",
                       ObjectOf(<<"j">> :> ArrayOf(StringSchema))),
        WithAdditional(ObjectOf(<<"k">> :> StringSchema), "nil",
                       ObjectOf(<<"k">> :> ArrayOf(StringSchema))),
        [ObjectOf(<<>>) EXCEPT
           !.allOf = <<ObjectOf(<<"k">> :> StringSchema),
                       ObjectOf((<<"k">> :> ArrayOf(StringSchema))
                                  @@ (<<"j">> :> ArrayOf(StringSchema)))>>],
        StringSchema}

MultipartBodyDecoder ==
  /\ IsBodyCall("multipartBodyDecoder")
  /\ ret' = multipartBodyDecoder(bodyDecoders, call.mediaErr, call.form, call.schema)
  /\ UNCHANGED <<bodyDecoders, lastReg, call>>

InitMultipart ==
  /\ bodyDecoders = BuiltinDecoders
  /\ lastReg = BuiltinDecoders
  /\ \E parts \in SeqsUpTo(Parts, MaxParts), schema \in MultipartSchemas,
        mediaErr \in {NoErr, ErrMediaType}, err \in {NoErr, ErrNextPart} :
       call = [op |-> "multipartBodyDecoder", mediaErr |-> mediaErr,
               form |-> Form(parts, err), schema |-> schema]
  /\ ret = Pending

NextMultipart == MultipartBodyDecoder

SpecMultipart == InitMultipart /\ [][NextMultipart]_vars

(***************************************************************************)
(* C21: the parts of a multipart form                                      *)
(***************************************************************************)

\* a call that reached the loop over the parts, on a schema without allOf
C21_Case ==
  /\ call.op = "multipartBodyDecoder" /\ HasReturned
  /\ Is(call.schema, "object") /\ call.schema.allOf = <<>>
  /\ ~IsErr(call.mediaErr)

IsDeclared(name) == name \in DOMAIN call.schema.properties

InFallback(name) ==
  /\ call.schema.additionalProperties.has = "nil"
  /\ call.schema.additionalProperties.schema # NilSchema
  /\ name \in DOMAIN call.schema.additionalProperties.schema.properties

IsSkipped(name) == ~IsDeclared(name) /\ call.schema.additionalProperties.has = "true"

IsUndefined(name) == ~IsDeclared(name) /\ ~IsSkipped(name) /\ ~InFallback(name)

\* the property a part of this name is matched to
MatchedProperty(name) ==
  IF IsDeclared(name) THEN call.schema.properties[name]
  ELSE call.schema.additionalProperties.schema.properties[name]

\* the schema a part of this name is to be decoded with
PartSchema(name) ==
  IF Is(MatchedProperty(name), "array") THEN MatchedProperty(name).items
  ELSE MatchedProperty(name)

\* the parts that are not skipped, in arrival order
Arrived == SelectSeq(call.form.parts, LAMBDA part : ~IsSkipped(part.name))

\* a part that ends the decoding: it is undefined or its body does not decode
Stops(part) == IsUndefined(part.name) \/ IsErr(decodePartBody(bodyDecoders, part).err)

Stopping == {i \in DOMAIN Arrived : Stops(Arrived[i])}

\* the decoded values of the parts of this name, in arrival order
PartValues(name) ==
  With(SelectSeq(Arrived, LAMBDA part : part.name = name), LAMBDA named :
    [i \in DOMAIN named |-> decodePartBody(bodyDecoders, named[i]).v])

\* C21: in multipart decoding an undeclared part is skipped when
\* additionalProperties is true, gives the error "part <name>: undefined" when
\* it is false or absent without a fallback declaring the name, and is
\* decoded with the fallback's property otherwise; a part matched to an array
\* property is decoded with its items schema; in the result an array property
\* holds the values of all its parts in arrival order, any other property the
\* value of its first part.
C21_Parts ==
  C21_Case =>
    /\ \A i \in DOMAIN ret.calls :
         /\ i <= Len(Arrived) /\ ~IsUndefined(Arrived[i].name)
         /\ ret.calls[i] = [name |-> Arrived[i].name, schema |-> PartSchema(Arrived[i].name)]
    /\ \A i \in Stopping :
         (IsUndefined(Arrived[i].name) /\ \A j \in Stopping : i <= j) =>
           (ret.v = Null /\ ret.err = PartUndefined(Arrived[i].name))
    /\ (Stopping = {} /\ ~IsErr(call.form.err)) =>
         /\ ~IsErr(ret.err) /\ Len(ret.calls) = Len(Arrived)
         /\ \A name \in PartNames :
              IF Len(PartValues(name)) = 0 THEN name \notin DOMAIN ret.v.o
              ELSE /\ name \in DOMAIN ret.v.o
                   /\ ret.v.o[name] = IF Is(MatchedProperty(name), "array")
                                      THEN Arr(PartValues(name))
                                      ELSE PartValues(name)[1]

====
